---- MODULE Spec2Model ----
(***************************************************************************)
(* A model of the CS144 simple router with NAT (K1ASER/CS144-Router).      *)
(*                                                                         *)
(* Three execution contexts share the router state: the ingress worker     *)
(* (sr_handlepacket / NatHandleRecievedIpPacket), the NAT timer thread     *)
(* (sr_nat_timeout) and the ARP retry thread (sr_arpcache_timeout).  The   *)
(* NAT table is protected by the recursive mutex nat->lock, the ARP cache  *)
(* by the recursive mutex cache->lock.                                     *)
(*                                                                         *)
(* Addresses, ports and identifiers are modelled by their wire values; the *)
(* NAT code stores them as they appear in the packet, so no byte-order     *)
(* conversion is involved in any comparison the NAT makes.                 *)
(***************************************************************************)
EXTENDS Integers, Sequences, FiniteSets, TLC

VARIABLES
    routing_table,        \* sr->routing_table: sequence of routes
    mappings,             \* nat->mappings: list of mappings, head first
    nextIcmpIdentNumber,  \* nat->nextIcmpIdentNumber
    nextTcpPortNumber,    \* nat->nextTcpPortNumber
    now,                  \* the value time(NULL) returns
    natLock,              \* nat->lock   (recursive mutex: owner, count)
    arpLock,              \* cache->lock (recursive mutex: owner, count)
    arpCache,             \* sr->cache.entries: the valid entries, ip -> mac
    arpReqs,              \* sr->cache.requests: list of pending requests
    pcIn,                 \* where the ingress worker is
    pkt,                  \* the packet the ingress worker is handling
    natCopy,              \* the ingress worker's malloc'ed copy of a mapping
    pcTimer,              \* where the NAT timer thread is
    pcArp,                \* where the ARP retry thread is
    emitted,              \* frames handed to sr_send_packet by the last step
    fwd,                  \* the translation the last step made, if any
    aborted,              \* the process died (failed assert / NULL dereference)
    unlockedAccess,       \* history: the NAT table was touched without nat->lock
    lockOrder,            \* history: nestings of the two locks seen so far
    lastOut               \* history: outbound translations of the live mappings

vars == << routing_table, mappings, nextIcmpIdentNumber, nextTcpPortNumber, now,
           natLock, arpLock, arpCache, arpReqs, pcIn, pkt, natCopy, pcTimer,
           pcArp, emitted, fwd, aborted, unlockedAccess, lockOrder, lastOut >>

-----------------------------------------------------------------------------
(* Bounds of the model *)

MaxTime == 2          \* the clock runs from 0 to MaxTime
MaxMappings == 2      \* mappings that may be live at once
MaxQueued == 1        \* frames queued on one ARP request
MaxLockDepth == 2     \* times a thread may own a recursive mutex at once

-----------------------------------------------------------------------------
(* Program constants *)

STARTING_PORT_NUMBER == 50000
LAST_PORT_NUMBER == 59999
DEFAULT_TTL == 64
ARP_MAX_TRIES == 5

\* nat->icmpTimeout, nat->tcpEstablishedTimeout, nat->tcpTransitoryTimeout:
\* set from the command line by sr_main; the router runs here with
\* "-I 0 -E 1 -R 0".
icmpTimeout == 0
tcpEstablishedTimeout == 1
tcpTransitoryTimeout == 0

IpAddr(a, b, c, d) == << a, b, c, d >>

-----------------------------------------------------------------------------
(* Topology: the three-interface router of the lab tests.  eth1 is the     *)
(* internal interface; eth2 and eth3 face external networks.               *)

internalInterfaceName == "eth1"

broadcastEthernetAddress == "ff:ff:ff:ff:ff:ff"

if_list ==
    << [name |-> "eth3", ip |-> IpAddr(10, 0, 1, 11),     addr |-> "0e:20:ab:92:e8:b1"],
       [name |-> "eth1", ip |-> IpAddr(107, 23, 115, 113), addr |-> "76:fb:5e:a7:04:87"],
       [name |-> "eth2", ip |-> IpAddr(107, 23, 115, 121), addr |-> "fa:a4:0c:89:d7:dc"] >>

IfNames == { if_list[i].name : i \in 1..Len(if_list) }

InterfaceNamed ==
    [n \in IfNames |-> CHOOSE f \in { if_list[i] : i \in 1..Len(if_list) } : f.name = n]

sr_get_interface(name) == InterfaceNamed[name]

\* Hosts of the lab topology
InternalHost == IpAddr(107, 23, 115, 131)   \* behind eth1
ServerTwo    == IpAddr(107, 23, 114, 19)    \* behind eth2
InternetGw   == IpAddr(10, 0, 1, 1)         \* next hop of the default route
InternetHost == IpAddr(64, 121, 20, 36)     \* reached through the default route

MacOf(ip) ==
    CASE ip = InternalHost -> "0e:20:ab:80:00:05"
      [] ip = ServerTwo    -> "0e:20:ab:80:00:07"
      [] OTHER             -> "0e:20:ab:80:00:02"

AllOnes == IpAddr(255, 255, 255, 255)
ZeroIp == IpAddr(0, 0, 0, 0)

HostRoutes ==
    << [dest |-> InternalHost, gw |-> InternalHost, mask |-> AllOnes, interface |-> "eth1"],
       [dest |-> ServerTwo,    gw |-> ServerTwo,    mask |-> AllOnes, interface |-> "eth2"] >>

DefaultRoute ==
    [dest |-> ZeroIp, gw |-> InternetGw, mask |-> ZeroIp, interface |-> "eth3"]

\* The routing tables the router is started with: the lab table, and the
\* same table without its default route.
RoutingTables == { <<DefaultRoute>> \o HostRoutes, HostRoutes }

-----------------------------------------------------------------------------
(* 32-bit values are kept as their four bytes, most significant first *)

RECURSIVE BitAnd(_, _, _)
BitAnd(x, y, n) ==
    IF n = 0 \/ x = 0 \/ y = 0 THEN 0
    ELSE IF x = y THEN x
    ELSE (x % 2) * (y % 2) + 2 * BitAnd(x \div 2, y \div 2, n - 1)

And32(x, y) == [i \in 1..4 |-> BitAnd(x[i], y[i], 8)]

\* ntohl / htonl on the little-endian build: reverse the four bytes
ntohl(x) == << x[4], x[3], x[2], x[1] >>

\* the number of 1 bits a byte starts with
LeadingOnes(byte) ==
    CASE byte = 255 -> 8 [] byte >= 254 -> 7 [] byte >= 252 -> 6
      [] byte >= 248 -> 5 [] byte >= 240 -> 4 [] byte >= 224 -> 3
      [] byte >= 192 -> 2 [] byte >= 128 -> 1 [] OTHER -> 0

\* bitScanner starts at 0x80000000 and moves right until it falls off or
\* meets a clear bit; the scan is taken here one byte at a time
RECURSIVE MaskScan(_, _, _)
MaskScan(mask, byte, ret) ==
    IF byte > 4 THEN ret
    ELSE IF mask[byte] = 255 THEN MaskScan(mask, byte + 1, ret + 8)
    ELSE ret + LeadingOnes(mask[byte])

networkGetMaskLength(mask) == MaskScan(mask, 1, 0)

\* rt.mask is kept as struct in_addr, i.e. in network byte order, and is
\* used as it is; destIp and ntohl(dest) are in host byte order.
RECURSIVE RouteScan(_, _, _, _, _)
RouteScan(rt, i, destIp, networkMaskLength, ret) ==
    IF i > Len(rt) THEN ret
    ELSE LET m == ntohl(rt[i].mask)
         IN  IF networkGetMaskLength(m) > networkMaskLength
                /\ And32(destIp, m) = And32(rt[i].dest, m)
             THEN RouteScan(rt, i + 1, destIp, networkGetMaskLength(m), <<rt[i]>>)
             ELSE RouteScan(rt, i + 1, destIp, networkMaskLength, ret)

\* <<>> stands for NULL, <<r>> for a pointer to route r
networkGetPacketRoute(destIp) == RouteScan(routing_table, 1, destIp, -1, <<>>)

networkIpDestinationIsUs(packet) ==
    \E i \in 1..Len(if_list) : packet.dst = if_list[i].ip

\* networkIpSourceIsUs finding no interface with the address
networkIpSourceIsUs_Never(packet) == FALSE

networkIpSourceIsUs(packet) ==
    \E i \in 1..Len(if_list) : packet.src = if_list[i].ip

-----------------------------------------------------------------------------
(* Recursive mutexes *)

NoOwner == "none"

FreeLock == [owner |-> NoOwner, count |-> 0]

\* pthread_mutex_lock returns at once iff the mutex is free or already ours
CanLock(l, t) == l.owner = NoOwner \/ l.owner = t

pthread_mutex_lock(l, t) == [owner |-> t, count |-> l.count + 1]

pthread_mutex_unlock(l, t) ==
    IF l.owner # t THEN l
    ELSE IF l.count = 1 THEN FreeLock
    ELSE [owner |-> t, count |-> l.count - 1]

Holds(l, t) == l.owner = t /\ l.count > 0

-----------------------------------------------------------------------------
(* Packets and frames.  An optional value (a pointer that may be NULL) is  *)
(* a sequence of length 0 or 1.                                            *)

ip_protocol_icmp == 1
ip_protocol_tcp == 6

\* the ip_p byte of a datagram
ProtocolNumber(proto) == IF proto = "icmp" THEN ip_protocol_icmp ELSE ip_protocol_tcp

\* cksum: the 16-bit one's complement of the one's complement sum of the
\* 16-bit words; a result of 0 is returned as 0xffff
RECURSIVE SumWords(_, _)
SumWords(words, i) ==
    IF i > Len(words) THEN 0 ELSE words[i] + SumWords(words, i + 1)

RECURSIVE FoldCarry(_)
FoldCarry(sum) ==
    IF sum > 65535 THEN FoldCarry((sum \div 65536) + (sum % 65536)) ELSE sum

cksum(words) ==
    LET ret == 65535 - FoldCarry(SumWords(words, 1))
    IN  IF ret = 0 THEN 65535 ELSE ret

\* the 16-bit words of the header of a datagram with ip_sum set to 0:
\* version, header length and type of service; TTL and protocol; the
\* checksum; source and destination address
IpHeaderWords(packet) ==
    << 17664, packet.ttl * 256 + ProtocolNumber(packet.proto), 0,
       packet.src[1] * 256 + packet.src[2], packet.src[3] * 256 + packet.src[4],
       packet.dst[1] * 256 + packet.dst[2], packet.dst[3] * 256 + packet.dst[4] >>

\* packet->ip_sum = 0; packet->ip_sum = cksum(packet, getIpHeaderLength(packet))
RecalculateIpChecksum(packet) ==
    [packet EXCEPT !.sum = cksum(IpHeaderWords(packet))]

\* the test networkHandleReceivedIpPacket makes on a received datagram
IpChecksumVerifies(packet) == packet.sum = cksum(IpHeaderWords(packet))

IpPacket(proto, src, dst, ttl) ==
    RecalculateIpChecksum(
        [proto |-> proto, src |-> src, dst |-> dst, ttl |-> ttl, sum |-> 0,
         sport |-> 0, dport |-> 0, syn |-> FALSE, fin |-> FALSE,
         type |-> 0, code |-> 0, ident |-> 0, inner |-> <<>>])

TcpPacket(src, sport, dst, dport, syn, fin, ttl) ==
    [IpPacket("tcp", src, dst, ttl) EXCEPT
        !.sport = sport, !.dport = dport, !.syn = syn, !.fin = fin]

IcmpEcho(type, src, dst, ident, ttl) ==
    [IpPacket("icmp", src, dst, ttl) EXCEPT !.type = type, !.ident = ident]

icmp_type_echo_reply == 0
icmp_type_desination_unreachable == 3
icmp_type_echo_request == 8
icmp_type_time_exceeded == 11
icmp_code_network_unreachable == 0
icmp_code_destination_host_unreachable == 1
icmp_code_destination_port_unreachable == 3

NoArp == [op |-> "none", sha |-> "", sip |-> ZeroIp, tha |-> "", tip |-> ZeroIp]

IpFrame(iface, dhost, shost, packet) ==
    [iface |-> iface, dhost |-> dhost, shost |-> shost, type |-> "ip",
     ip |-> <<packet>>, arp |-> NoArp]

ArpFrame(iface, dhost, shost, arp) ==
    [iface |-> iface, dhost |-> dhost, shost |-> shost, type |-> "arp",
     ip |-> <<>>, arp |-> arp]

-----------------------------------------------------------------------------
(* Link layer and ARP cache.  The effects of a call chain are threaded     *)
(* through a record E: the ARP cache, the request queue, the frames sent,  *)
(* whether the process has died, the lock nestings seen, and which of the  *)
(* two locks the caller holds while the chain runs.                        *)

Effects(holdsNat, holdsArp) ==
    [cache |-> arpCache, reqs |-> arpReqs, out |-> <<>>, dead |-> FALSE,
     ub |-> FALSE, arp |-> FALSE, fwd |-> <<>>, order |-> lockOrder,
     nat |-> holdsNat, arpHeld |-> holdsArp]

\* every sr_arpcache_* entry point takes cache->lock for its own duration
ArpLocked(E) ==
    [E EXCEPT !.arp = TRUE,
              !.order = IF E.nat THEN @ \cup {"NAT_then_ARP"} ELSE @]

RECURSIVE FirstIndex(_, _, _)
FirstIndex(s, i, ip) ==
    IF i > Len(s) THEN 0
    ELSE IF s[i].ip = ip THEN i ELSE FirstIndex(s, i + 1, ip)

sr_arpcache_lookup(cache, ip) ==
    LET i == FirstIndex(cache, 1, ip)
    IN  IF i = 0 THEN <<>> ELSE <<cache[i]>>

RemoveAt(s, i) == SubSeq(s, 1, i - 1) \o SubSeq(s, i + 1, Len(s))

sr_arpcache_queuereq(reqs, ip, frame) ==
    LET i == FirstIndex(reqs, 1, ip)
    IN  IF i = 0
        THEN << [ip |-> ip, times_sent |-> 0, sent |-> 0,
                 requestedInterface |-> "", packets |-> <<frame>>] >> \o reqs
        ELSE [reqs EXCEPT ![i].packets = @ \o <<frame>>]

LinkSendArpRequest(request) ==
    LET requestedInterface == sr_get_interface(request.requestedInterface)
    IN  ArpFrame(requestedInterface.name, broadcastEthernetAddress,
                 requestedInterface.addr,
                 [op |-> "request", sha |-> requestedInterface.addr,
                  sip |-> requestedInterface.ip, tha |-> "00:00:00:00:00:00",
                  tip |-> request.ip])

\* linkArpAndSendPacket entering the NAT (nat->lock) from inside the ARP
\* cache, with cache->lock held
linkArpAndSendPacket_NatInsideArp(E, packet, route) ==
    IF E.dead THEN E
    ELSE IF route = <<>> THEN [E EXCEPT !.dead = TRUE]
    ELSE
    LET nextHopIpAddress == route[1].gw
        L == [ArpLocked(E) EXCEPT
                 !.order = IF E.nat THEN @ ELSE @ \cup {"ARP_then_NAT"}]
        arpEntry == sr_arpcache_lookup(L.cache, nextHopIpAddress)
        shost == sr_get_interface(route[1].interface).addr
    IN  IF arpEntry # <<>>
        THEN [L EXCEPT !.out = @ \o
                 << IpFrame(route[1].interface, arpEntry[1].mac, shost, packet) >>]
        ELSE LET queued == sr_arpcache_queuereq(L.reqs, nextHopIpAddress,
                              IpFrame(route[1].interface, "", shost, packet))
                 i == FirstIndex(queued, 1, nextHopIpAddress)
             IN  IF queued[i].times_sent = 0
                 THEN LET req == [queued[i] EXCEPT
                                     !.requestedInterface = route[1].interface]
                      IN  [L EXCEPT
                             !.reqs = [queued EXCEPT ![i] =
                                         [req EXCEPT !.times_sent = 1, !.sent = now]],
                             !.out = @ \o << LinkSendArpRequest(req) >>]
                 ELSE [L EXCEPT !.reqs = queued]

\* linkArpAndSendPacket opening a request of its own for every frame
linkArpAndSendPacket_OwnRequest(E, packet, route) ==
    IF E.dead THEN E
    ELSE IF route = <<>> THEN [E EXCEPT !.dead = TRUE]
    ELSE
    LET nextHopIpAddress == route[1].gw
        L == ArpLocked(E)
        arpEntry == sr_arpcache_lookup(L.cache, nextHopIpAddress)
        shost == sr_get_interface(route[1].interface).addr
    IN  IF arpEntry # <<>>
        THEN [L EXCEPT !.out = @ \o
                 << IpFrame(route[1].interface, arpEntry[1].mac, shost, packet) >>]
        ELSE LET queued == sr_arpcache_queuereq(<<>>, nextHopIpAddress,
                              IpFrame(route[1].interface, "", shost, packet))
                 req == [queued[1] EXCEPT
                            !.requestedInterface = route[1].interface]
             IN  [L EXCEPT
                    !.reqs = << [req EXCEPT !.times_sent = 1, !.sent = now] >>
                             \o @,
                    !.out = @ \o << LinkSendArpRequest(req) >>]

\* linkArpAndSendPacket broadcasting a request for every frame it queues
linkArpAndSendPacket_AlwaysAsks(E, packet, route) ==
    IF E.dead THEN E
    ELSE IF route = <<>> THEN [E EXCEPT !.dead = TRUE]
    ELSE
    LET nextHopIpAddress == route[1].gw
        L == ArpLocked(E)
        arpEntry == sr_arpcache_lookup(L.cache, nextHopIpAddress)
        shost == sr_get_interface(route[1].interface).addr
    IN  IF arpEntry # <<>>
        THEN [L EXCEPT !.out = @ \o
                 << IpFrame(route[1].interface, arpEntry[1].mac, shost, packet) >>]
        ELSE LET queued == sr_arpcache_queuereq(L.reqs, nextHopIpAddress,
                              IpFrame(route[1].interface, "", shost, packet))
                 i == FirstIndex(queued, 1, nextHopIpAddress)
                 req == [queued[i] EXCEPT !.requestedInterface = route[1].interface]
             IN  [L EXCEPT
                    !.reqs = [queued EXCEPT ![i] =
                                [req EXCEPT !.times_sent = 1, !.sent = now]],
                    !.out = @ \o << LinkSendArpRequest(req) >>]

linkArpAndSendPacket(E, packet, route) ==
    IF E.dead THEN E
    ELSE IF route = <<>> THEN [E EXCEPT !.dead = TRUE]      \* assert(route)
    ELSE
    LET nextHopIpAddress == route[1].gw
        L == ArpLocked(E)
        arpEntry == sr_arpcache_lookup(L.cache, nextHopIpAddress)
        shost == sr_get_interface(route[1].interface).addr
    IN  IF arpEntry # <<>>
        THEN [L EXCEPT !.out = @ \o
                 << IpFrame(route[1].interface, arpEntry[1].mac, shost, packet) >>]
        ELSE LET queued == sr_arpcache_queuereq(L.reqs, nextHopIpAddress,
                              IpFrame(route[1].interface, "", shost, packet))
                 i == FirstIndex(queued, 1, nextHopIpAddress)
             IN  IF queued[i].times_sent = 0
                 THEN LET req == [queued[i] EXCEPT
                                     !.requestedInterface = route[1].interface]
                      IN  [L EXCEPT
                             !.reqs = [queued EXCEPT ![i] =
                                         [req EXCEPT !.times_sent = 1, !.sent = now]],
                             !.out = @ \o << LinkSendArpRequest(req) >>]
                 ELSE [L EXCEPT !.reqs = queued]

NetworkSendTypeThreeIcmpPacket(E, icmpCode, originalPacket) ==
    IF E.dead \/ networkIpSourceIsUs(originalPacket) THEN E
    ELSE
    LET icmpRoute == networkGetPacketRoute(originalPacket.src)
    IN  IF icmpRoute = <<>> THEN [E EXCEPT !.dead = TRUE]   \* assert(icmpRoute)
        ELSE LET destinationInterface == sr_get_interface(icmpRoute[1].interface)
                 reply == [IpPacket("icmp", destinationInterface.ip,
                                    originalPacket.src, DEFAULT_TTL) EXCEPT
                              !.type = icmp_type_desination_unreachable,
                              !.code = icmpCode,
                              !.inner = << [originalPacket EXCEPT !.inner = <<>>] >>]
             IN  linkArpAndSendPacket(E, reply, icmpRoute)

networkForwardIpPacket(E, packet, receivedInterface) ==
    LET forwardRoute == networkGetPacketRoute(packet.dst)
    IN  IF forwardRoute # <<>> /\ forwardRoute[1].interface # receivedInterface
        THEN linkArpAndSendPacket(E, packet, forwardRoute)
        ELSE NetworkSendTypeThreeIcmpPacket(E, icmp_code_network_unreachable, packet)

-----------------------------------------------------------------------------
(* The NAT table.  The natTrusted* functions are the ones the code calls   *)
(* with nat->lock held; a lookup returns the index of the mapping in the   *)
(* list (0 for NULL).                                                      *)

nat_mapping_icmp == "icmp"
nat_mapping_tcp == "tcp"

nat_conn_outbound_syn == "outbound_syn"
nat_conn_inbound_syn_pending == "inbound_syn_pending"
nat_conn_connected == "connected"
nat_conn_time_wait == "time_wait"

\* a queuedInboundSyn pointer: NULL, a live buffer, a buffer already freed,
\* or whatever malloc left in the field
NullSyn == [ptr |-> "null", data |-> <<>>]
LiveSyn(packet) == [ptr |-> "live", data |-> <<packet>>]

\* a lookup that never finds the mapping it is asked for
natTrustedLookupInternal_Blind(maps, ip_int, aux_int, type) == 0

RECURSIVE LookupInternalFrom(_, _, _, _, _)
LookupInternalFrom(maps, i, ip_int, aux_int, type) ==
    IF i > Len(maps) THEN 0
    ELSE IF maps[i].type = type /\ maps[i].ip_int = ip_int /\ maps[i].aux_int = aux_int
         THEN i
         ELSE LookupInternalFrom(maps, i + 1, ip_int, aux_int, type)

natTrustedLookupInternal(maps, ip_int, aux_int, type) ==
    LookupInternalFrom(maps, 1, ip_int, aux_int, type)

RECURSIVE LookupExternalFrom(_, _, _, _)
LookupExternalFrom(maps, i, aux_ext, type) ==
    IF i > Len(maps) THEN 0
    ELSE IF maps[i].type = type /\ maps[i].aux_ext = aux_ext
         THEN i
         ELSE LookupExternalFrom(maps, i + 1, aux_ext, type)

natTrustedLookupExternal(maps, aux_ext, type) ==
    LookupExternalFrom(maps, 1, aux_ext, type)

\* a search that finds no connection
FindConnectionFrom_Misses(conns, i, ip, port) == 0

RECURSIVE FindConnectionFrom(_, _, _, _)
FindConnectionFrom(conns, i, ip, port) ==
    IF i > Len(conns) THEN 0
    ELSE IF conns[i].ip = ip /\ conns[i].port = port
         THEN i
         ELSE FindConnectionFrom(conns, i + 1, ip, port)

\* natTrustedFindConnection: the index of the connection to (ip, port), and
\* the connection list after the hit has refreshed lastAccessed
natTrustedFindConnection(conns, ip, port) ==
    LET i == FindConnectionFrom(conns, 1, ip, port)
    IN  [index |-> i,
         conns |-> IF i = 0 THEN conns ELSE [conns EXCEPT ![i].lastAccessed = now]]

\* a counter that runs on past the last port
NextPort_NoWrap(n) == n + 1

NextPort(n) == IF n + 1 > LAST_PORT_NUMBER THEN STARTING_PORT_NUMBER ELSE n + 1

\* natTrustedCreateMapping: the new mapping takes the next number of its
\* kind and is linked at the head of the list
natTrustedCreateMapping(N, ip_int, aux_int, type) ==
    LET aux_ext == IF type = nat_mapping_icmp THEN N.nextIcmpIdentNumber
                   ELSE N.nextTcpPortNumber
        mapping == [type |-> type, ip_int |-> ip_int, aux_int |-> aux_int,
                    aux_ext |-> aux_ext, last_updated |-> now, conns |-> <<>>]
    IN  [mappings |-> <<mapping>> \o N.mappings,
         nextIcmpIdentNumber |->
            IF type = nat_mapping_icmp THEN NextPort(N.nextIcmpIdentNumber)
            ELSE N.nextIcmpIdentNumber,
         nextTcpPortNumber |->
            IF type = nat_mapping_tcp THEN NextPort(N.nextTcpPortNumber)
            ELSE N.nextTcpPortNumber]

NatState ==
    [mappings |-> mappings, nextIcmpIdentNumber |-> nextIcmpIdentNumber,
     nextTcpPortNumber |-> nextTcpPortNumber]

\* a connection made without the port of its peer
NewConnection_NoPeerPort(state, lastAccessed, queued, ip, port) ==
    [connectionState |-> state, lastAccessed |-> lastAccessed,
     queuedInboundSyn |-> queued, ip |-> ip, port |-> 0]

NewConnection(state, lastAccessed, queued, ip, port) ==
    [connectionState |-> state, lastAccessed |-> lastAccessed,
     queuedInboundSyn |-> queued, ip |-> ip, port |-> port]

\* sr_nat_destroy_connection frees queuedInboundSyn when the field is not
\* NULL: freeing anything but a live buffer is undefined behaviour
sr_nat_destroy_connection(E, conns, i) ==
    [conns |-> RemoveAt(conns, i),
     E |-> IF conns[i].queuedInboundSyn.ptr \in {"freed", "wild"}
           THEN [E EXCEPT !.ub = TRUE] ELSE E]

TimedOut(conn) ==
    \/ /\ conn.connectionState = nat_conn_connected
       /\ now - conn.lastAccessed > tcpEstablishedTimeout
    \/ /\ conn.connectionState \in {nat_conn_outbound_syn, nat_conn_time_wait}
       /\ now - conn.lastAccessed > tcpTransitoryTimeout
    \/ /\ conn.connectionState = nat_conn_inbound_syn_pending
       /\ now - conn.lastAccessed > tcpTransitoryTimeout

\* the connection loop of sr_nat_timeout for one TCP mapping
RECURSIVE SweepConnections(_, _, _)
SweepConnections(E, conns, i) ==
    IF i > Len(conns) THEN [conns |-> conns, E |-> E]
    ELSE IF ~TimedOut(conns[i]) THEN SweepConnections(E, conns, i + 1)
    ELSE LET q == conns[i].queuedInboundSyn
             E1 == IF conns[i].connectionState = nat_conn_inbound_syn_pending
                      /\ q.ptr # "null"
                   THEN IF q.ptr = "live"
                        THEN NetworkSendTypeThreeIcmpPacket(E,
                                icmp_code_destination_port_unreachable, q.data[1])
                        ELSE [E EXCEPT !.ub = TRUE]
                   ELSE E
             d == sr_nat_destroy_connection(E1, conns, i)
         IN  SweepConnections(d.E, d.conns, i)

\* a mapping loop that leaves a TCP mapping without connections in the table
RECURSIVE SweepMappings_KeepsEmpty(_, _, _)
SweepMappings_KeepsEmpty(E, maps, i) ==
    IF i > Len(maps) THEN [mappings |-> maps, E |-> E]
    ELSE IF maps[i].type = nat_mapping_icmp
    THEN IF now - maps[i].last_updated > icmpTimeout
         THEN SweepMappings_KeepsEmpty(E, RemoveAt(maps, i), i)
         ELSE SweepMappings_KeepsEmpty(E, maps, i + 1)
    ELSE LET s == SweepConnections(E, maps[i].conns, 1)
         IN  SweepMappings_KeepsEmpty(s.E, [maps EXCEPT ![i].conns = s.conns], i + 1)

\* the mapping loop of sr_nat_timeout
RECURSIVE SweepMappings(_, _, _)
SweepMappings(E, maps, i) ==
    IF i > Len(maps) THEN [mappings |-> maps, E |-> E]
    ELSE IF maps[i].type = nat_mapping_icmp
    THEN IF now - maps[i].last_updated > icmpTimeout
         THEN SweepMappings(E, RemoveAt(maps, i), i)
         ELSE SweepMappings(E, maps, i + 1)
    ELSE LET s == SweepConnections(E, maps[i].conns, 1)
         IN  IF s.conns = <<>>
             THEN SweepMappings(s.E, RemoveAt(maps, i), i)
             ELSE SweepMappings(s.E, [maps EXCEPT ![i].conns = s.conns], i + 1)

-----------------------------------------------------------------------------
(* Packets addressed to the router *)

networkSendIcmpEchoReply(E, echoRequestPacket) ==
    LET reply == RecalculateIpChecksum(
                     [echoRequestPacket EXCEPT
                         !.src = echoRequestPacket.dst, !.dst = echoRequestPacket.src,
                         !.ttl = DEFAULT_TTL, !.type = icmp_type_echo_reply])
    IN  linkArpAndSendPacket(E, reply, networkGetPacketRoute(echoRequestPacket.src))

networkHandleIcmpPacket(E, packet) ==
    IF packet.type = icmp_type_echo_request
    THEN networkSendIcmpEchoReply(E, packet)
    ELSE E

networkHandleReceivedIpPacketToUs(E, packet) ==
    IF packet.proto = "icmp"
    THEN networkHandleIcmpPacket(E, packet)
    ELSE NetworkSendTypeThreeIcmpPacket(E, icmp_code_destination_port_unreachable,
                                        packet)

-----------------------------------------------------------------------------
(* NAT translation.  Both translators rewrite the packet in place and hand *)
(* it to the forwarder; E.fwd remembers the packet as it was received and  *)
(* as it was handed over.                                                  *)

Translation(dir, received, rewritten) ==
    [dir |-> dir, received |-> received, pkt |-> rewritten]

\* sr_get_interface(sr, IpGetPacketRoute(sr, dst)->interface)->ip:
\* <<>> when the route is NULL and the dereference kills the process
EgressIp(dst) ==
    LET route == networkGetPacketRoute(dst)
    IN  IF route = <<>> THEN <<>>
        ELSE << sr_get_interface(route[1].interface).ip >>

natHandleReceivedOutboundIpPacket(E, packet, receivedInterface, natMapping) ==
    LET ip_src == EgressIp(packet.dst)
    IN  IF ip_src = <<>> THEN [E EXCEPT !.dead = TRUE]
        ELSE LET rewritten ==
                     IF packet.proto = "icmp"
                     THEN [packet EXCEPT !.ident = natMapping.aux_ext,
                                         !.src = ip_src[1]]
                     ELSE [packet EXCEPT !.sport = natMapping.aux_ext,
                                         !.src = ip_src[1]]
             IN  [networkForwardIpPacket(E, rewritten, receivedInterface)
                     EXCEPT !.fwd = << Translation("out", packet, rewritten) >>]

natHandleReceivedInboundIpPacket(E, packet, receivedInterface, natMapping) ==
    LET rewritten ==
            IF packet.proto = "icmp"
            THEN [packet EXCEPT !.ident = natMapping.aux_int,
                                !.dst = natMapping.ip_int]
            ELSE [packet EXCEPT !.dport = natMapping.aux_int,
                                !.dst = natMapping.ip_int]
    IN  [networkForwardIpPacket(E, rewritten, receivedInterface)
            EXCEPT !.fwd = << Translation("in", packet, rewritten) >>]

-----------------------------------------------------------------------------
(* The public NAT entry points: each takes nat->lock around a trusted      *)
(* lookup and returns a malloc'ed copy of the mapping found.  The result   *)
(* records the table and the lock after the call, and whether the table    *)
(* was touched with the lock held.                                         *)

\* memcpy of the mapping: the copy shares the connection list with the
\* original through its conns pointer and never reads it
Copy(mapping) == [mapping EXCEPT !.conns = <<>>]

\* sr_nat_lookup_internal without its pthread_mutex_lock / unlock pair
sr_nat_lookup_internal_NoLock(t, ip_int, aux_int, type) ==
    LET i == natTrustedLookupInternal(mappings, ip_int, aux_int, type)
        maps == IF i = 0 THEN mappings
                ELSE [mappings EXCEPT ![i].last_updated = now]
    IN  [copy |-> IF i = 0 THEN <<>> ELSE << Copy(maps[i]) >>,
         mappings |-> maps,
         held |-> Holds(natLock, t),
         lock |-> natLock]

sr_nat_lookup_internal(t, ip_int, aux_int, type) ==
    LET locked == pthread_mutex_lock(natLock, t)
        i == natTrustedLookupInternal(mappings, ip_int, aux_int, type)
        maps == IF i = 0 THEN mappings
                ELSE [mappings EXCEPT ![i].last_updated = now]
    IN  [copy |-> IF i = 0 THEN <<>> ELSE << Copy(maps[i]) >>,
         mappings |-> maps,
         held |-> Holds(locked, t),
         lock |-> pthread_mutex_unlock(locked, t)]

sr_nat_lookup_external(t, aux_ext, type) ==
    LET locked == pthread_mutex_lock(natLock, t)
        i == natTrustedLookupExternal(mappings, aux_ext, type)
        maps == IF i = 0 THEN mappings
                ELSE [mappings EXCEPT ![i].last_updated = now]
    IN  [copy |-> IF i = 0 THEN <<>> ELSE << Copy(maps[i]) >>,
         mappings |-> maps,
         held |-> Holds(locked, t),
         lock |-> pthread_mutex_unlock(locked, t)]

sr_nat_insert_mapping(t, ip_int, aux_int, type) ==
    LET locked == pthread_mutex_lock(natLock, t)
        N == natTrustedCreateMapping(NatState, ip_int, aux_int, type)
    IN  [copy |-> << Copy(N.mappings[1]) >>,
         nat |-> N,
         held |-> Holds(locked, t),
         lock |-> pthread_mutex_unlock(locked, t)]

-----------------------------------------------------------------------------
(* natHandleTcpPacket: the state update between the lookup and the         *)
(* translation.  An update yields the NAT state and the lock after it,     *)
(* whether every access to the table was made with the lock held, whether  *)
(* the process died, whether undefined behaviour was met, and whether the  *)
(* packet goes on to be translated and forwarded.                          *)

Update(N, lock, held, dead, ub, forward) ==
    [nat |-> N, lock |-> lock, held |-> held, dead |-> dead, ub |-> ub,
     forward |-> forward]

NoUpdate(forward) == Update(NatState, natLock, TRUE, FALSE, FALSE, forward)

\* what malloc may have left in the fields the code does not initialise
GarbageTimes == {0, MaxTime}
GarbagePointers == { NullSyn, [ptr |-> "wild", data |-> <<>>] }

WithConns(N, i, conns) == [N EXCEPT !.mappings[i].conns = conns]

\* an update in which the SYN from inside leaves a waiting connection waiting
TcpOutboundUpdate_PendingStays(t, packet, natMapping, garbageTime, garbagePointer) ==
    LET locked == pthread_mutex_lock(natLock, t)
        held == Holds(locked, t)
        unlocked == pthread_mutex_unlock(locked, t)
        i == natTrustedLookupInternal(mappings, packet.src, packet.sport,
                                      nat_mapping_tcp)
        f == natTrustedFindConnection(mappings[i].conns, packet.dst, packet.dport)
    IN  IF packet.syn
        THEN IF natMapping = <<>>
             THEN LET C == natTrustedCreateMapping(NatState, packet.src,
                                                   packet.sport, nat_mapping_tcp)
                      firstConnection ==
                          NewConnection(nat_conn_outbound_syn, now, NullSyn,
                                        packet.dst, packet.dport)
                  IN  Update(WithConns(C, 1, <<firstConnection>>), unlocked, held,
                             FALSE, FALSE, TRUE)
             ELSE IF i = 0
             THEN Update(NatState, locked, held, TRUE, FALSE, FALSE) \* assert
             ELSE IF f.index = 0
             THEN LET connection ==
                          NewConnection(nat_conn_outbound_syn, garbageTime,
                                        garbagePointer, packet.dst, packet.dport)
                  IN  Update(WithConns(NatState, i, <<connection>> \o f.conns),
                             unlocked, held, FALSE, FALSE, TRUE)
             ELSE LET c == f.conns[f.index]
                      q == c.queuedInboundSyn
                  IN  IF c.connectionState = nat_conn_time_wait
                      THEN Update(WithConns(NatState, i,
                                     [f.conns EXCEPT ![f.index].connectionState =
                                         nat_conn_outbound_syn]),
                                  unlocked, held, FALSE, FALSE, TRUE)
                      ELSE IF c.connectionState = nat_conn_inbound_syn_pending
                      THEN Update(WithConns(NatState, i,
                                     [f.conns EXCEPT
                                        ![f.index].connectionState = nat_conn_inbound_syn_pending,
                                        ![f.index].queuedInboundSyn =
                                            IF q.ptr = "null" THEN q
                                            ELSE [ptr |-> "freed", data |-> <<>>]]),
                                  unlocked, held, FALSE,
                                  q.ptr \in {"freed", "wild"}, TRUE)
                      ELSE Update(WithConns(NatState, i, f.conns), unlocked, held,
                                  FALSE, FALSE, TRUE)
        ELSE IF natMapping = <<>> THEN NoUpdate(FALSE)
        ELSE IF packet.fin
        THEN IF i = 0
             THEN Update(NatState, locked, held, TRUE, FALSE, FALSE) \* NULL->conns
             ELSE Update(WithConns(NatState, i,
                            IF f.index = 0 THEN f.conns
                            ELSE [f.conns EXCEPT ![f.index].connectionState =
                                     nat_conn_time_wait]),
                         unlocked, held, FALSE, FALSE, TRUE)
        ELSE NoUpdate(TRUE)

\* packet from the internal interface; natMapping is the lookup's copy;
\* garbageTime and garbagePointer resolve the uninitialised fields
TcpOutboundUpdate(t, packet, natMapping, garbageTime, garbagePointer) ==
    LET locked == pthread_mutex_lock(natLock, t)
        held == Holds(locked, t)
        unlocked == pthread_mutex_unlock(locked, t)
        i == natTrustedLookupInternal(mappings, packet.src, packet.sport,
                                      nat_mapping_tcp)
        f == natTrustedFindConnection(mappings[i].conns, packet.dst, packet.dport)
    IN  IF packet.syn
        THEN IF natMapping = <<>>
             THEN LET C == natTrustedCreateMapping(NatState, packet.src,
                                                   packet.sport, nat_mapping_tcp)
                      firstConnection ==
                          NewConnection(nat_conn_outbound_syn, now, NullSyn,
                                        packet.dst, packet.dport)
                  IN  Update(WithConns(C, 1, <<firstConnection>>), unlocked, held,
                             FALSE, FALSE, TRUE)
             ELSE IF i = 0
             THEN Update(NatState, locked, held, TRUE, FALSE, FALSE) \* assert
             ELSE IF f.index = 0
             THEN LET connection ==
                          NewConnection(nat_conn_outbound_syn, garbageTime,
                                        garbagePointer, packet.dst, packet.dport)
                  IN  Update(WithConns(NatState, i, <<connection>> \o f.conns),
                             unlocked, held, FALSE, FALSE, TRUE)
             ELSE LET c == f.conns[f.index]
                      q == c.queuedInboundSyn
                  IN  IF c.connectionState = nat_conn_time_wait
                      THEN Update(WithConns(NatState, i,
                                     [f.conns EXCEPT ![f.index].connectionState =
                                         nat_conn_outbound_syn]),
                                  unlocked, held, FALSE, FALSE, TRUE)
                      ELSE IF c.connectionState = nat_conn_inbound_syn_pending
                      THEN Update(WithConns(NatState, i,
                                     [f.conns EXCEPT
                                        ![f.index].connectionState = nat_conn_connected,
                                        ![f.index].queuedInboundSyn =
                                            IF q.ptr = "null" THEN q
                                            ELSE [ptr |-> "freed", data |-> <<>>]]),
                                  unlocked, held, FALSE,
                                  q.ptr \in {"freed", "wild"}, TRUE)
                      ELSE Update(WithConns(NatState, i, f.conns), unlocked, held,
                                  FALSE, FALSE, TRUE)
        ELSE IF natMapping = <<>> THEN NoUpdate(FALSE)
        ELSE IF packet.fin
        THEN IF i = 0
             THEN Update(NatState, locked, held, TRUE, FALSE, FALSE) \* NULL->conns
             ELSE Update(WithConns(NatState, i,
                            IF f.index = 0 THEN f.conns
                            ELSE [f.conns EXCEPT ![f.index].connectionState =
                                     nat_conn_time_wait]),
                         unlocked, held, FALSE, FALSE, TRUE)
        ELSE NoUpdate(TRUE)

\* packet from an external interface
TcpInboundUpdate(t, packet, natMapping, garbageTime) ==
    LET locked == pthread_mutex_lock(natLock, t)
        held == Holds(locked, t)
        unlocked == pthread_mutex_unlock(locked, t)
        i == natTrustedLookupExternal(mappings, packet.dport, nat_mapping_tcp)
        f == natTrustedFindConnection(mappings[i].conns, packet.src, packet.sport)
    IN  IF natMapping = <<>> THEN NoUpdate(FALSE)
        ELSE IF i = 0
        THEN Update(NatState, locked, held, TRUE, FALSE, FALSE)
        ELSE IF packet.syn
        THEN IF f.index = 0
             THEN LET connection ==
                          NewConnection(nat_conn_inbound_syn_pending, garbageTime,
                                        LiveSyn(packet), packet.src, packet.sport)
                  IN  \* returns with the lock still held
                      Update(WithConns(NatState, i, <<connection>> \o f.conns),
                             locked, held, FALSE, FALSE, FALSE)
             ELSE IF f.conns[f.index].connectionState = nat_conn_inbound_syn_pending
             THEN Update(WithConns(NatState, i, f.conns), locked, held,
                         FALSE, FALSE, FALSE)
             ELSE IF f.conns[f.index].connectionState = nat_conn_outbound_syn
             THEN Update(WithConns(NatState, i,
                            [f.conns EXCEPT ![f.index].connectionState =
                                nat_conn_connected]),
                         unlocked, held, FALSE, FALSE, TRUE)
             ELSE Update(WithConns(NatState, i, f.conns), unlocked, held,
                         FALSE, FALSE, TRUE)
        ELSE IF packet.fin
        THEN Update(WithConns(NatState, i,
                       IF f.index = 0 THEN f.conns
                       ELSE [f.conns EXCEPT ![f.index].connectionState =
                                nat_conn_time_wait]),
                    unlocked, held, FALSE, FALSE, TRUE)
        ELSE Update(WithConns(NatState, i, f.conns), unlocked, held, FALSE, FALSE,
                    f.index # 0)

-----------------------------------------------------------------------------
(* Inputs of the NAT: validated IP datagrams with the interface they       *)
(* arrived on (TCP segments and ICMP echo messages).                       *)

InternalPort == 1024
ServerPort == 80
EchoIdent == 7
ArrivalTtl == 63
OtherPort == 81

Received(iface, packet) == [iface |-> iface, ip |-> packet]

ExternalPeers ==
    { [ip |-> ServerTwo, iface |-> "eth2"], [ip |-> InternetHost, iface |-> "eth3"] }

\* the peer of the TCP conversations
TcpPeers == { [ip |-> InternetHost, iface |-> "eth3"] }

TcpFlags == { <<TRUE, FALSE>>, <<FALSE, TRUE>>, <<FALSE, FALSE>> }

TcpInputs ==
    { Received("eth1", TcpPacket(InternalHost, InternalPort, peer.ip, ServerPort,
                                 fl[1], fl[2], ArrivalTtl))
        : peer \in TcpPeers, fl \in TcpFlags }
    \cup
    { Received(peer.iface, TcpPacket(peer.ip, ServerPort,
                                     sr_get_interface(peer.iface).ip,
                                     STARTING_PORT_NUMBER, fl[1], fl[2], ArrivalTtl))
        : peer \in TcpPeers, fl \in TcpFlags }
    \cup
    { Received("eth1", TcpPacket(InternalHost, InternalPort,
                                 sr_get_interface("eth1").ip, ServerPort,
                                 TRUE, FALSE, ArrivalTtl)),
      Received("eth3", TcpPacket(InternetHost, ServerPort,
                                 sr_get_interface(internalInterfaceName).ip,
                                 OtherPort, TRUE, FALSE, ArrivalTtl)) }

IcmpInputs ==
    { Received("eth1", IcmpEcho(icmp_type_echo_request, InternalHost, peer.ip,
                                EchoIdent, ArrivalTtl)) : peer \in ExternalPeers }
    \cup
    { Received(peer.iface, IcmpEcho(icmp_type_echo_reply, peer.ip,
                                    sr_get_interface(peer.iface).ip,
                                    STARTING_PORT_NUMBER, ArrivalTtl))
        : peer \in ExternalPeers }
    \cup
    { Received("eth1", IcmpEcho(icmp_type_echo_request, InternalHost,
                                sr_get_interface("eth1").ip, EchoIdent, ArrivalTtl)),
      Received("eth2", IcmpEcho(icmp_type_echo_request, ServerTwo, InternetHost,
                                EchoIdent, ArrivalTtl)),
      Received("eth2", IcmpEcho(icmp_type_echo_request, ServerTwo,
                                sr_get_interface("eth1").ip, EchoIdent, ArrivalTtl)) }

-----------------------------------------------------------------------------
(* Bookkeeping shared by the actions *)

Ingress == "ingress"
Timer == "timer"
ArpThread == "arp"

\* the effects of a call chain become the next state: the thread must be
\* able to enter the ARP cache if the chain does, and undefined behaviour
\* may or may not kill the process
CommitQueued(E, t, queued) ==
    /\ E.arp => CanLock(arpLock, t)
    /\ \A i \in 1..Len(E.reqs) : Len(E.reqs[i].packets) <= queued
    /\ arpCache' = E.cache
    /\ arpReqs' = E.reqs
    /\ emitted' = E.out
    /\ fwd' = E.fwd
    /\ lockOrder' = E.order
    /\ aborted' \in (IF E.ub THEN {E.dead, TRUE} ELSE {E.dead})

Commit(E, t) == CommitQueued(E, t, MaxQueued)

SetNat(N) ==
    /\ mappings' = N.mappings
    /\ nextIcmpIdentNumber' = N.nextIcmpIdentNumber
    /\ nextTcpPortNumber' = N.nextTcpPortNumber

natVars == << mappings, nextIcmpIdentNumber, nextTcpPortNumber >>
threadVars == << pcTimer, pcArp >>
ingressVars == << pcIn, pkt, natCopy >>

AuxInt(packet) == IF packet.proto = "icmp" THEN packet.ident ELSE packet.sport

Idle ==
    /\ pcIn' = "idle"
    /\ pkt' = <<>>
    /\ natCopy' = <<>>

-----------------------------------------------------------------------------
(* The ingress worker inside the NAT (NatHandleRecievedIpPacket) *)

\* natHandleTcpPacket up to and including the lookup of the mapping
natHandleTcpPacket_Lookup(in) ==
    /\ pcIn = "idle" /\ ~aborted
    /\ LET packet == in.ip
           internal == sr_get_interface(internalInterfaceName).ip
                          = sr_get_interface(in.iface).ip
       IN  IF internal /\ networkIpDestinationIsUs(packet)
           THEN /\ Commit(networkHandleReceivedIpPacketToUs(
                             Effects(Holds(natLock, Ingress), FALSE), packet), Ingress)
                /\ UNCHANGED << natVars, natLock, ingressVars, unlockedAccess >>
           ELSE LET r == IF internal
                         THEN sr_nat_lookup_internal(Ingress, packet.src, packet.sport,
                                                     nat_mapping_tcp)
                         ELSE sr_nat_lookup_external(Ingress, packet.dport,
                                                     nat_mapping_tcp)
                IN  /\ CanLock(natLock, Ingress)
                    /\ mappings' = r.mappings
                    /\ natLock' = r.lock
                    /\ unlockedAccess' = (unlockedAccess \/ ~r.held)
                    /\ natCopy' = r.copy
                    /\ pkt' = <<in>>
                    /\ pcIn' = IF internal THEN "tcpOutbound" ELSE "tcpInbound"
                    /\ emitted' = <<>> /\ fwd' = <<>>
                    /\ UNCHANGED << nextIcmpIdentNumber, nextTcpPortNumber, arpCache,
                                    arpReqs, lockOrder, aborted >>
    /\ UNCHANGED << routing_table, now, arpLock, threadVars >>

\* the rest of natHandleTcpPacket for a packet from the internal interface
natHandleTcpPacket_Outbound ==
    /\ pcIn = "tcpOutbound" /\ ~aborted
    /\ LET packet == pkt[1].ip
       IN  \E garbageTime \in GarbageTimes, garbagePointer \in GarbagePointers :
           LET u == TcpOutboundUpdate(Ingress, packet, natCopy, garbageTime,
                                      garbagePointer)
               section == packet.syn \/ (natCopy # <<>> /\ packet.fin)
               copy == IF natCopy = <<>> /\ u.forward THEN Copy(u.nat.mappings[1])
                       ELSE natCopy[1]
               E0 == [Effects(Holds(u.lock, Ingress), FALSE) EXCEPT
                         !.dead = u.dead, !.ub = u.ub]
               E == IF u.forward /\ ~u.dead
                    THEN natHandleReceivedOutboundIpPacket(E0, packet, pkt[1].iface,
                                                           copy)
                    ELSE E0
           IN  /\ section => CanLock(natLock, Ingress)
               /\ section /\ natCopy = <<>> => Len(mappings) < MaxMappings
               /\ SetNat(u.nat)
               /\ natLock' = u.lock
               /\ unlockedAccess' = (unlockedAccess \/ ~u.held)
               /\ Commit(E, Ingress)
    /\ Idle
    /\ UNCHANGED << routing_table, now, arpLock, threadVars >>

\* the rest of natHandleTcpPacket for a packet from an external interface
natHandleTcpPacket_Inbound ==
    /\ pcIn = "tcpInbound" /\ ~aborted
    /\ LET packet == pkt[1].ip
       IN  \E garbageTime \in GarbageTimes :
           LET u == TcpInboundUpdate(Ingress, packet, natCopy, garbageTime)
               E0 == [Effects(Holds(u.lock, Ingress), FALSE) EXCEPT !.dead = u.dead]
               E == IF natCopy = <<>>
                    THEN NetworkSendTypeThreeIcmpPacket(E0,
                            icmp_code_destination_port_unreachable, packet)
                    ELSE IF u.forward /\ ~u.dead
                    THEN natHandleReceivedInboundIpPacket(E0, packet, pkt[1].iface,
                                                          natCopy[1])
                    ELSE E0
           IN  /\ natCopy # <<>> => CanLock(natLock, Ingress)
               /\ u.lock.count <= MaxLockDepth
               /\ SetNat(u.nat)
               /\ natLock' = u.lock
               /\ unlockedAccess' = (unlockedAccess \/ ~u.held)
               /\ Commit(E, Ingress)
    /\ Idle
    /\ UNCHANGED << routing_table, now, arpLock, threadVars >>

natHandleIcmpPacket(in) ==
    /\ pcIn = "idle" /\ ~aborted
    /\ LET packet == in.ip
           internalIp == sr_get_interface(internalInterfaceName).ip
           internal == internalIp = sr_get_interface(in.iface).ip
           E0 == Effects(Holds(natLock, Ingress), FALSE)
           route == networkGetPacketRoute(packet.dst)
       IN  IF internal /\ networkIpDestinationIsUs(packet)
           THEN /\ Commit(networkHandleReceivedIpPacketToUs(E0, packet), Ingress)
                /\ UNCHANGED << natVars, natLock, ingressVars, unlockedAccess >>
           ELSE IF internal
           THEN LET r == sr_nat_lookup_internal(Ingress, packet.src, packet.ident,
                                                nat_mapping_icmp)
                    c == sr_nat_insert_mapping(Ingress, packet.src, packet.ident,
                                               nat_mapping_icmp)
                    insert == r.copy = <<>>
                    N == IF insert THEN c.nat
                         ELSE [NatState EXCEPT !.mappings = r.mappings]
                    E == natHandleReceivedOutboundIpPacket(E0, packet, in.iface,
                             IF insert THEN c.copy[1] ELSE r.copy[1])
                IN  /\ CanLock(natLock, Ingress)
                    /\ insert => Len(mappings) < MaxMappings
                    /\ SetNat(N)
                    /\ natLock' = r.lock
                    /\ unlockedAccess' =
                          (unlockedAccess \/ ~r.held \/ (insert /\ ~c.held))
                    /\ Commit(E, Ingress)
                    /\ UNCHANGED ingressVars
           ELSE IF ~networkIpDestinationIsUs(packet)
           THEN /\ Commit(IF route = <<>> THEN [E0 EXCEPT !.dead = TRUE]
                          ELSE IF internalIp # sr_get_interface(route[1].interface).ip
                          THEN networkForwardIpPacket(E0, packet, in.iface)
                          ELSE E0, Ingress)
                /\ UNCHANGED << natVars, natLock, ingressVars, unlockedAccess >>
           ELSE IF packet.dst = internalIp
           THEN /\ Commit(E0, Ingress)
                /\ UNCHANGED << natVars, natLock, ingressVars, unlockedAccess >>
           ELSE LET r == sr_nat_lookup_external(Ingress, packet.ident,
                                                nat_mapping_icmp)
                    E1 == Effects(Holds(r.lock, Ingress), FALSE)
                IN  /\ CanLock(natLock, Ingress)
                    /\ mappings' = r.mappings
                    /\ natLock' = r.lock
                    /\ unlockedAccess' = (unlockedAccess \/ ~r.held)
                    /\ Commit(IF r.copy = <<>>
                              THEN networkHandleReceivedIpPacketToUs(E1, packet)
                              ELSE natHandleReceivedInboundIpPacket(E1, packet,
                                       in.iface, r.copy[1]), Ingress)
                    /\ UNCHANGED << nextIcmpIdentNumber, nextTcpPortNumber,
                                    ingressVars >>
    /\ UNCHANGED << routing_table, now, arpLock, threadVars >>

-----------------------------------------------------------------------------
(* The NAT timer thread (sr_nat_timeout): it takes nat->lock, walks the    *)
(* table and releases the lock.  The walk enters the ARP cache when it     *)
(* answers a queued SYN, so it waits for cache->lock with nat->lock held.  *)

sr_nat_timeout_Lock ==
    /\ pcTimer = "sleep" /\ ~aborted
    /\ CanLock(natLock, Timer)
    /\ natLock' = pthread_mutex_lock(natLock, Timer)
    /\ pcTimer' = "walk"
    /\ emitted' = <<>> /\ fwd' = <<>>
    /\ UNCHANGED << routing_table, natVars, now, arpLock, arpCache, arpReqs,
                    ingressVars, pcArp, aborted, unlockedAccess, lockOrder >>

sr_nat_timeout_Walk ==
    /\ pcTimer = "walk" /\ ~aborted
    /\ LET s == SweepMappings(Effects(Holds(natLock, Timer), FALSE), mappings, 1)
       IN  /\ mappings' = s.mappings
           /\ Commit(s.E, Timer)
           /\ unlockedAccess' = (unlockedAccess \/ ~Holds(natLock, Timer))
    /\ natLock' = pthread_mutex_unlock(natLock, Timer)
    /\ pcTimer' = "sleep"
    /\ UNCHANGED << routing_table, nextIcmpIdentNumber, nextTcpPortNumber, now,
                    arpLock, ingressVars, pcArp >>

\* time(NULL) moves on
Clock(limit) ==
    /\ now < limit /\ ~aborted
    /\ now' = now + 1
    /\ emitted' = <<>> /\ fwd' = <<>>
    /\ UNCHANGED << routing_table, natVars, natLock, arpLock, arpCache, arpReqs,
                    ingressVars, threadVars, aborted, unlockedAccess, lockOrder >>

Tick == Clock(MaxTime)

-----------------------------------------------------------------------------
(* The ARP retry thread (sr_arpcache_timeout): it takes cache->lock,       *)
(* sweeps the pending requests and releases the lock.                      *)

RECURSIVE HostUnreachable(_, _, _)
HostUnreachable(E, packets, i) ==
    IF i > Len(packets) THEN E
    ELSE HostUnreachable(
             NetworkSendTypeThreeIcmpPacket(E,
                 icmp_code_destination_host_unreachable, packets[i].ip[1]),
             packets, i + 1)

\* one pending request, found by its address in the queue as it is now
handle_arpreq(E, ip) ==
    LET i == FirstIndex(E.reqs, 1, ip)
        req == E.reqs[i]
    IN  IF i = 0 \/ now - req.sent < 1 THEN E
        ELSE IF req.times_sent >= ARP_MAX_TRIES
        THEN HostUnreachable([E EXCEPT !.reqs = RemoveAt(E.reqs, i)],
                             req.packets, 1)
        ELSE [E EXCEPT !.reqs[i].times_sent = @ + 1,
                       !.reqs[i].sent = now,
                       !.out = @ \o << LinkSendArpRequest(req) >>]

RECURSIVE sr_arpcache_sweepreqs(_, _, _)
sr_arpcache_sweepreqs(E, ips, i) ==
    IF i > Len(ips) THEN E
    ELSE sr_arpcache_sweepreqs(handle_arpreq(E, ips[i]), ips, i + 1)

sr_arpcache_timeout_Lock ==
    /\ pcArp = "sleep" /\ ~aborted
    /\ CanLock(arpLock, ArpThread)
    /\ arpLock' = pthread_mutex_lock(arpLock, ArpThread)
    /\ pcArp' = "sweep"
    /\ emitted' = <<>> /\ fwd' = <<>>
    /\ UNCHANGED << routing_table, natVars, now, natLock, arpCache, arpReqs,
                    ingressVars, pcTimer, aborted, unlockedAccess, lockOrder >>

\* queued: the longest queue of frames a pending request is let to have
sr_arpcache_timeout_Queued(queued) ==
    /\ pcArp = "sweep" /\ ~aborted
    /\ CommitQueued(sr_arpcache_sweepreqs(
                  Effects(Holds(natLock, ArpThread), Holds(arpLock, ArpThread)),
                  [i \in 1..Len(arpReqs) |-> arpReqs[i].ip], 1), ArpThread, queued)
    /\ arpLock' = pthread_mutex_unlock(arpLock, ArpThread)
    /\ pcArp' = "sleep"
    /\ UNCHANGED << routing_table, natVars, now, natLock, ingressVars, pcTimer,
                    unlockedAccess >>

sr_arpcache_timeout_Sweep == sr_arpcache_timeout_Queued(MaxQueued)

-----------------------------------------------------------------------------
(* The router with NAT enabled, from the state sr_nat_init and             *)
(* sr_arpcache_init leave, or from the state where the three neighbours    *)
(* have already answered ARP.                                              *)

WarmCache ==
    << [ip |-> InternalHost, mac |-> MacOf(InternalHost)],
       [ip |-> ServerTwo, mac |-> MacOf(ServerTwo)],
       [ip |-> InternetGw, mac |-> MacOf(InternetGw)] >>

sr_nat_init ==
    /\ mappings = <<>>
    /\ nextIcmpIdentNumber = STARTING_PORT_NUMBER
    /\ nextTcpPortNumber = STARTING_PORT_NUMBER
    /\ natLock = FreeLock

Init ==
    /\ routing_table = <<DefaultRoute>> \o HostRoutes
    /\ sr_nat_init
    /\ now = 0
    /\ arpLock = FreeLock
    /\ arpCache = WarmCache
    /\ arpReqs = <<>>
    /\ pcIn = "idle" /\ pkt = <<>> /\ natCopy = <<>>
    /\ pcTimer = "sleep" /\ pcArp = "sleep"
    /\ emitted = <<>> /\ fwd = <<>>
    /\ aborted = FALSE
    /\ unlockedAccess = FALSE
    /\ lockOrder = {}
    /\ lastOut = {}

Next ==
    \/ \E in \in TcpInputs : natHandleTcpPacket_Lookup(in) /\ UNCHANGED lastOut
    \/ natHandleTcpPacket_Outbound /\ UNCHANGED lastOut
    \/ natHandleTcpPacket_Inbound /\ UNCHANGED lastOut
    \/ \E in \in IcmpInputs : natHandleIcmpPacket(in) /\ UNCHANGED lastOut
    \/ sr_nat_timeout_Lock /\ UNCHANGED lastOut
    \/ sr_nat_timeout_Walk /\ UNCHANGED lastOut
    \/ Tick /\ UNCHANGED lastOut

Spec == Init /\ [][Next]_vars

-----------------------------------------------------------------------------
(* The NAT after a long run: the ICMP identifier counter has reached the   *)
(* end of its range, and the mapping that took the first identifier is     *)
(* still in the table, kept alive by traffic.  lastOut follows the         *)
(* outbound translations made through the mappings still in the table.     *)

OtherIdent == 8

\* the external port or identifier an inbound packet is addressed to
AuxExt(packet) == IF packet.proto = "icmp" THEN packet.ident ELSE packet.dport

\* the outbound translation of a step, if it made one
Outbound(translation) ==
    IF translation # <<>> /\ translation[1].dir = "out"
    THEN { [type |-> translation[1].received.proto,
            ip_int |-> translation[1].received.src,
            aux_int |-> AuxInt(translation[1].received),
            ext_ip |-> translation[1].pkt.src,
            aux_ext |-> AuxInt(translation[1].pkt)] }
    ELSE {}

Live(maps, h) ==
    \E i \in 1..Len(maps) :
        /\ maps[i].type = h.type /\ maps[i].ip_int = h.ip_int
        /\ maps[i].aux_int = h.aux_int /\ maps[i].aux_ext = h.aux_ext

Remember ==
    lastOut' = { h \in lastOut \cup Outbound(fwd') : Live(mappings', h) }

AgedInputs ==
    { Received("eth1", IcmpEcho(icmp_type_echo_request, InternalHost, peer.ip,
                                ident, ArrivalTtl))
        : peer \in ExternalPeers, ident \in {EchoIdent, OtherIdent} }
    \cup
    { Received(peer.iface, IcmpEcho(icmp_type_echo_reply, peer.ip,
                                    sr_get_interface(peer.iface).ip, ident,
                                    ArrivalTtl))
        : peer \in ExternalPeers,
          ident \in {STARTING_PORT_NUMBER, LAST_PORT_NUMBER} }

InitAged ==
    /\ routing_table = <<DefaultRoute>> \o HostRoutes
    /\ mappings = << [type |-> nat_mapping_icmp, ip_int |-> InternalHost,
                      aux_int |-> EchoIdent, aux_ext |-> STARTING_PORT_NUMBER,
                      last_updated |-> 0, conns |-> <<>>] >>
    /\ nextIcmpIdentNumber = LAST_PORT_NUMBER
    /\ nextTcpPortNumber = STARTING_PORT_NUMBER
    /\ natLock = FreeLock
    /\ now = 0
    /\ arpLock = FreeLock
    /\ arpCache = WarmCache
    /\ arpReqs = <<>>
    /\ pcIn = "idle" /\ pkt = <<>> /\ natCopy = <<>>
    /\ pcTimer = "sleep" /\ pcArp = "sleep"
    /\ emitted = <<>> /\ fwd = <<>>
    /\ aborted = FALSE
    /\ unlockedAccess = FALSE
    /\ lockOrder = {}
    /\ lastOut = {}

NextAged ==
    \/ \E in \in AgedInputs : natHandleIcmpPacket(in) /\ Remember
    \/ sr_nat_timeout_Lock /\ Remember
    \/ sr_nat_timeout_Walk /\ Remember
    \/ Tick /\ Remember

SpecAged == InitAged /\ [][NextAged]_vars

-----------------------------------------------------------------------------
(* The three threads together: the ingress worker inside the NAT, the NAT  *)
(* timer and the ARP retry thread, with an empty ARP cache and neighbours  *)
(* that never answer, over a time long enough for an ARP request to be     *)
(* given up.                                                               *)

MaxLockTime == 5

LockTcpInputs ==
    { Received("eth1", TcpPacket(InternalHost, InternalPort, InternetHost,
                                 ServerPort, TRUE, FALSE, ArrivalTtl)),
      Received("eth3", TcpPacket(InternetHost, OtherPort,
                                 sr_get_interface("eth3").ip,
                                 STARTING_PORT_NUMBER, TRUE, FALSE, ArrivalTtl)),
      Received("eth3", TcpPacket(InternetHost, ServerPort,
                                 sr_get_interface("eth3").ip,
                                 STARTING_PORT_NUMBER, FALSE, FALSE, ArrivalTtl)) }

InitLocks ==
    /\ routing_table = <<DefaultRoute>> \o HostRoutes
    /\ sr_nat_init
    /\ now = 0
    /\ arpLock = FreeLock
    /\ arpCache = <<>>
    /\ arpReqs = <<>>
    /\ pcIn = "idle" /\ pkt = <<>> /\ natCopy = <<>>
    /\ pcTimer = "sleep" /\ pcArp = "sleep"
    /\ emitted = <<>> /\ fwd = <<>>
    /\ aborted = FALSE
    /\ unlockedAccess = FALSE
    /\ lockOrder = {}
    /\ lastOut = {}

NextLocks ==
    \/ \E in \in LockTcpInputs : natHandleTcpPacket_Lookup(in) /\ UNCHANGED lastOut
    \/ natHandleTcpPacket_Outbound /\ UNCHANGED lastOut
    \/ natHandleTcpPacket_Inbound /\ UNCHANGED lastOut
    \/ sr_nat_timeout_Lock /\ UNCHANGED lastOut
    \/ sr_nat_timeout_Walk /\ UNCHANGED lastOut
    \/ sr_arpcache_timeout_Lock /\ UNCHANGED lastOut
    \/ sr_arpcache_timeout_Sweep /\ UNCHANGED lastOut
    \/ Clock(MaxLockTime) /\ UNCHANGED lastOut

SpecLocks == InitLocks /\ [][NextLocks]_vars

-----------------------------------------------------------------------------
(* The router of sr_router.c with NAT switched off (natEnabled(sr) false): *)
(* sr_handlepacket takes a frame through the link layer to the ARP or the  *)
(* IP handler.  Frames are taken as long enough and, for IP, with a good   *)
(* header checksum and version 4.                                          *)

MaxCacheEntries == 2

\* sr_arpcache_insert: the entry takes the first free slot of the cache;
\* the result tells where the pending request for the address is (0: none)
sr_arpcache_insert(E, mac, ip) ==
    LET L == ArpLocked(E)
    IN  [E |-> [L EXCEPT !.cache = @ \o << [ip |-> ip, mac |-> mac] >>],
         request |-> FirstIndex(L.reqs, 1, ip)]

\* the frames queued on a request leaving last queued first
SendQueued_Reversed(packets, mac) ==
    [i \in 1..Len(packets) |->
        [packets[Len(packets) + 1 - i] EXCEPT !.dhost = mac]]

\* the frames queued on a request leave with the address just learned
SendQueued(packets, mac) ==
    [i \in 1..Len(packets) |-> [packets[i] EXCEPT !.dhost = mac]]

\* linkHandleReceivedArpPacket answering with the target address of the
\* request left in the reply
linkHandleReceivedArpPacket_TargetKept(E, packet, interface) ==
    IF packet.op = "request"
    THEN IF packet.tip = interface.ip
         THEN [E EXCEPT !.out = @ \o
                 << ArpFrame(interface.name, packet.sha, interface.addr,
                             [op |-> "reply", sha |-> interface.addr,
                              sip |-> interface.ip, tha |-> packet.sha,
                              tip |-> packet.tip]) >>]
         ELSE E
    ELSE IF packet.op = "reply"
    THEN IF packet.tip = interface.ip
         THEN LET r == sr_arpcache_insert(E, packet.sha, packet.sip)
              IN  IF r.request # 0
                  THEN [r.E EXCEPT
                          !.out = @ \o SendQueued(r.E.reqs[r.request].packets,
                                                  packet.sha),
                          !.reqs = RemoveAt(@, r.request)]
                  ELSE r.E
         ELSE E
    ELSE E

linkHandleReceivedArpPacket(E, packet, interface) ==
    IF packet.op = "request"
    THEN IF packet.tip = interface.ip
         THEN [E EXCEPT !.out = @ \o
                 << ArpFrame(interface.name, packet.sha, interface.addr,
                             [op |-> "reply", sha |-> interface.addr,
                              sip |-> interface.ip, tha |-> packet.sha,
                              tip |-> packet.sip]) >>]
         ELSE E
    ELSE IF packet.op = "reply"
    THEN IF packet.tip = interface.ip
         THEN LET r == sr_arpcache_insert(E, packet.sha, packet.sip)
              IN  IF r.request # 0
                  THEN [r.E EXCEPT
                          !.out = @ \o SendQueued(r.E.reqs[r.request].packets,
                                                  packet.sha),
                          !.reqs = RemoveAt(@, r.request)]   \* sr_arpreq_destroy
                  ELSE r.E
         ELSE E
    ELSE E

networkSendIcmpTtlExpired(E, originalPacket, receivedInterface) ==
    LET reply == [IpPacket("icmp", receivedInterface.ip, originalPacket.src,
                           DEFAULT_TTL) EXCEPT
                     !.type = icmp_type_time_exceeded,
                     !.inner = << [originalPacket EXCEPT !.inner = <<>>] >>]
    IN  linkArpAndSendPacket(E, reply, networkGetPacketRoute(originalPacket.src))

\* uint8_t packetTtl = packet->ip_ttl - 1
networkHandleReceivedIpPacket(E, packet, interface) ==
    IF networkIpDestinationIsUs(packet)
    THEN networkHandleReceivedIpPacketToUs(E, packet)
    ELSE LET packetTtl == (packet.ttl - 1) % 256
             forwarded == RecalculateIpChecksum([packet EXCEPT !.ttl = packetTtl])
         IN  IF packetTtl = 0
             THEN networkSendIcmpTtlExpired(E, packet, interface)
             ELSE [networkForwardIpPacket(E, forwarded, interface.name)
                      EXCEPT !.fwd = << Translation("forward", packet, forwarded) >>]

\* queued: the longest queue of frames a pending request is let to have
sr_handlepacket_Queued(frame, queued) ==
    /\ pcIn = "idle" /\ ~aborted
    /\ LET receivedInterfaceEntry == sr_get_interface(frame.iface)
           E0 == Effects(FALSE, FALSE)
           E == IF frame.dhost # receivedInterfaceEntry.addr
                   /\ frame.dhost # broadcastEthernetAddress
                THEN E0
                ELSE IF frame.type = "arp"
                THEN linkHandleReceivedArpPacket(E0, frame.arp, receivedInterfaceEntry)
                ELSE IF frame.type = "ip"
                THEN networkHandleReceivedIpPacket(E0, frame.ip[1],
                                                   receivedInterfaceEntry)
                ELSE E0
       IN  /\ Len(E.cache) <= MaxCacheEntries
           /\ CommitQueued(E, Ingress, queued)
    /\ UNCHANGED << routing_table, natVars, now, natLock, arpLock, ingressVars,
                    threadVars, unlockedAccess >>

sr_handlepacket(frame) == sr_handlepacket_Queued(frame, MaxQueued)

\* the values of the TTL field a datagram arrives with
ArrivalTtls == {0, 1, 2, ArrivalTtl, 255}

ArpPacket(op, sha, sip, tip) ==
    [op |-> op, sha |-> sha, sip |-> sip, tha |-> "00:00:00:00:00:00", tip |-> tip]

\* frames on the wire: the neighbours' ARP traffic, with the sender hardware
\* address they choose to put in it, and IP datagrams
RouterFrames ==
    { ArpFrame("eth1", broadcastEthernetAddress, MacOf(InternalHost),
               ArpPacket("request", sha, InternalHost, sr_get_interface("eth1").ip))
        : sha \in {MacOf(InternalHost), sr_get_interface("eth1").addr} }
    \cup
    { ArpFrame("eth3", sr_get_interface("eth3").addr, MacOf(InternetGw),
               ArpPacket("reply", sha, InternetGw, sr_get_interface("eth3").ip))
        : sha \in {MacOf(InternetGw), sr_get_interface("eth3").addr} }
    \cup
    { ArpFrame("eth1", sr_get_interface("eth1").addr, MacOf(InternalHost),
               ArpPacket("reply", MacOf(InternalHost), InternalHost,
                         sr_get_interface("eth1").ip)) }
    \cup
    { IpFrame("eth1", sr_get_interface("eth1").addr, MacOf(InternalHost),
              IcmpEcho(icmp_type_echo_request, InternalHost, InternetHost,
                       EchoIdent, ttl)) : ttl \in ArrivalTtls }
    \cup
    { IpFrame("eth3", sr_get_interface("eth3").addr, MacOf(InternetGw),
              IcmpEcho(icmp_type_echo_reply, InternetHost, InternalHost,
                       EchoIdent, ArrivalTtl)),
      IpFrame("eth3", sr_get_interface("eth3").addr, MacOf(InternetGw),
              TcpPacket(InternetHost, ServerPort, sr_get_interface("eth3").ip,
                        InternalPort, TRUE, FALSE, ArrivalTtl)),
      IpFrame("eth1", sr_get_interface("eth1").addr, MacOf(InternalHost),
              IcmpEcho(icmp_type_echo_request, InternalHost,
                       sr_get_interface("eth1").ip, EchoIdent, ArrivalTtl)),
      IpFrame("eth1", MacOf(ServerTwo), MacOf(InternalHost),
              IcmpEcho(icmp_type_echo_request, InternalHost, ServerTwo,
                       EchoIdent, ArrivalTtl)) }

\* sr_main has loaded one of the routing tables; the ARP cache is empty
InitRouter ==
    /\ routing_table \in RoutingTables
    /\ sr_nat_init
    /\ now = 0
    /\ arpLock = FreeLock
    /\ arpCache = <<>>
    /\ arpReqs = <<>>
    /\ pcIn = "idle" /\ pkt = <<>> /\ natCopy = <<>>
    /\ pcTimer = "sleep" /\ pcArp = "sleep"
    /\ emitted = <<>> /\ fwd = <<>>
    /\ aborted = FALSE
    /\ unlockedAccess = FALSE
    /\ lockOrder = {}
    /\ lastOut = {}

NextRouter ==
    \/ \E frame \in RouterFrames : sr_handlepacket(frame) /\ UNCHANGED lastOut
    \/ sr_arpcache_timeout_Lock /\ UNCHANGED lastOut
    \/ sr_arpcache_timeout_Sweep /\ UNCHANGED lastOut
    \/ Tick /\ UNCHANGED lastOut

SpecRouter == InitRouter /\ [][NextRouter]_vars

-----------------------------------------------------------------------------
(* The same router seen from its ARP side: the ARP traffic of the          *)
(* neighbours, datagrams for the router and datagrams to forward, with the *)
(* ARP retry thread running beside the ingress worker.                     *)

MaxArpQueued == 2
MaxArpTime == 5

\* the frames of the lab tests HandlesArpRequest and
\* HandlesPingToRouterWithArp, the same ARP request arriving on another
\* interface, the neighbours' ARP replies, transit datagrams both ways, and
\* a TCP segment for the router that claims the router's address as source
ArpFrames ==
    { ArpFrame("eth3", broadcastEthernetAddress, MacOf(InternetGw),
               ArpPacket("request", MacOf(InternetGw), InternetGw,
                         sr_get_interface("eth3").ip)),
      ArpFrame("eth1", broadcastEthernetAddress, MacOf(InternalHost),
               ArpPacket("request", MacOf(InternalHost), InternalHost,
                         sr_get_interface("eth3").ip)),
      ArpFrame("eth3", sr_get_interface("eth3").addr, MacOf(InternetGw),
               ArpPacket("reply", MacOf(InternetGw), InternetGw,
                         sr_get_interface("eth3").ip)),
      ArpFrame("eth1", sr_get_interface("eth1").addr, MacOf(InternalHost),
               ArpPacket("reply", MacOf(InternalHost), InternalHost,
                         sr_get_interface("eth1").ip)),
      IpFrame("eth3", sr_get_interface("eth3").addr, MacOf(InternetGw),
              IcmpEcho(icmp_type_echo_request, InternetHost,
                       sr_get_interface("eth3").ip, EchoIdent, ArrivalTtl)) }
    \cup
    { IpFrame("eth1", sr_get_interface("eth1").addr, MacOf(InternalHost),
              IcmpEcho(icmp_type_echo_request, InternalHost, InternetHost,
                       EchoIdent, ArrivalTtl)) }
    \cup
    { IpFrame("eth3", sr_get_interface("eth3").addr, MacOf(InternetGw),
              IcmpEcho(icmp_type_echo_reply, InternetHost, InternalHost,
                       EchoIdent, ttl)) : ttl \in {1, ArrivalTtl} }
    \cup
    { IpFrame("eth1", sr_get_interface("eth1").addr, MacOf(InternalHost),
              TcpPacket(sr_get_interface("eth1").ip, InternalPort,
                        sr_get_interface("eth1").ip, ServerPort,
                        TRUE, FALSE, ArrivalTtl)) }

NextArp ==
    \/ \E frame \in ArpFrames :
           sr_handlepacket_Queued(frame, MaxArpQueued) /\ UNCHANGED lastOut
    \/ sr_arpcache_timeout_Lock /\ UNCHANGED lastOut
    \/ sr_arpcache_timeout_Queued(MaxArpQueued) /\ UNCHANGED lastOut
    \/ Tick /\ UNCHANGED lastOut

SpecArp == InitRouter /\ [][NextArp]_vars

\* the same, for as long as it takes the retry thread to give a request up
NextRetry ==
    \/ \E frame \in ArpFrames :
           sr_handlepacket_Queued(frame, MaxArpQueued) /\ UNCHANGED lastOut
    \/ sr_arpcache_timeout_Lock /\ UNCHANGED lastOut
    \/ sr_arpcache_timeout_Queued(MaxArpQueued) /\ UNCHANGED lastOut
    \/ Clock(MaxArpTime) /\ UNCHANGED lastOut

SpecRetry == InitRouter /\ [][NextRetry]_vars

-----------------------------------------------------------------------------
(* Properties of the NAT table *)

\* C1: no two NAT mappings have the same (kind, internal address, internal
\* port or identifier), whatever packets and timer runs came before.
C1_UniqueInternal ==
    \A i, j \in 1..Len(mappings) :
        i # j => ~ ( /\ mappings[i].type = mappings[j].type
                     /\ mappings[i].ip_int = mappings[j].ip_int
                     /\ mappings[i].aux_int = mappings[j].aux_int )

\* a second echo of a mapped internal endpoint has been translated at a
\* later time, with a TCP mapping next to it, and no second ICMP mapping
\* was made for it
C1_Witness ==
    /\ Len(mappings) = 2
    /\ now > 0
    /\ nextIcmpIdentNumber = STARTING_PORT_NUMBER + 1
    /\ fwd # <<>> /\ fwd[1].dir = "out"
    /\ fwd[1].pkt.proto = "icmp" /\ fwd[1].pkt.ident = STARTING_PORT_NUMBER
    /\ \E i \in 1..Len(mappings) :
          mappings[i].type = nat_mapping_icmp /\ mappings[i].last_updated = now

\* C2: no two NAT mappings of the same kind have the same external port or
\* identifier, however many mappings were created and timed out before.
C2_UniqueExternal ==
    \A i, j \in 1..Len(mappings) :
        i # j => ~ ( /\ mappings[i].type = mappings[j].type
                     /\ mappings[i].aux_ext = mappings[j].aux_ext )

\* C7: when an outbound packet of internal endpoint (ip_int, aux_int) was
\* translated to aux_ext through a mapping that is still in the table, an
\* inbound packet addressed to aux_ext is rewritten to (ip_int, aux_int).
C7_RoundTrip ==
    fwd # <<>> /\ fwd[1].dir = "in" =>
        \A h \in lastOut :
            h.type = fwd[1].received.proto /\ h.aux_ext = AuxExt(fwd[1].received)
            => fwd[1].pkt.dst = h.ip_int /\ AuxExt(fwd[1].pkt) = h.aux_int

\* C8: while a mapping is in the table, every outbound packet of its
\* internal endpoint leaves with one and the same external address and
\* port, whatever its destination.
C8_SameExternalEndpoint ==
    \A g, h \in lastOut :
        g.type = h.type /\ g.ip_int = h.ip_int /\ g.aux_int = h.aux_int
        => g.ext_ip = h.ext_ip /\ g.aux_ext = h.aux_ext

\* the connections of the table: (external port of the mapping, peer
\* address, peer port) -> state; "none" when there is no such connection
TcpConnections(maps) ==
    UNION { { << maps[i].aux_ext, maps[i].conns[j].ip, maps[i].conns[j].port,
                 maps[i].conns[j].connectionState >> : j \in 1..Len(maps[i].conns) }
            : i \in { k \in 1..Len(maps) : maps[k].type = nat_mapping_tcp } }

StateOf(maps, key) ==
    IF \E c \in TcpConnections(maps) : << c[1], c[2], c[3] >> = key
    THEN (CHOOSE c \in TcpConnections(maps) : << c[1], c[2], c[3] >> = key)[4]
    ELSE "none"

Keys(maps) == { << c[1], c[2], c[3] >> : c \in TcpConnections(maps) }

\* what the ingress worker is working on in this step
OutboundSyn == pcIn = "tcpOutbound" /\ pkt[1].ip.syn
InboundSyn == pcIn = "tcpInbound" /\ pkt[1].ip.syn
Fin == pcIn \in {"tcpOutbound", "tcpInbound"} /\ ~pkt[1].ip.syn /\ pkt[1].ip.fin
TimerWalk == pcTimer = "walk"

ListedTransition(from, to) ==
    \/ from = to
    \/ from = "none" /\ to = nat_conn_outbound_syn /\ OutboundSyn
    \/ from = nat_conn_outbound_syn /\ to = nat_conn_connected
    \/ from = "none" /\ to = nat_conn_inbound_syn_pending /\ InboundSyn
    \/ from = nat_conn_inbound_syn_pending /\ to = nat_conn_connected /\ OutboundSyn
    \/ from = nat_conn_inbound_syn_pending /\ to = "none" /\ TimerWalk
    \/ from = nat_conn_connected /\ to = nat_conn_time_wait /\ Fin
    \/ from = nat_conn_time_wait /\ to = nat_conn_outbound_syn /\ OutboundSyn
    \/ to = "none" /\ TimerWalk      \* idle connections of any state expire

\* C3: a TCP connection changes state only by the listed transitions:
\* created in OUTBOUND_SYN by an outbound SYN, OUTBOUND_SYN to CONNECTED,
\* created in INBOUND_SYN_PENDING by an inbound SYN, INBOUND_SYN_PENDING to
\* CONNECTED by an outbound SYN, INBOUND_SYN_PENDING destroyed by timeout,
\* CONNECTED to TIME_WAIT by a FIN, TIME_WAIT to OUTBOUND_SYN by an outbound
\* SYN, and CONNECTED staying CONNECTED.
C3_ListedTransitionsOnly ==
    [][ \A key \in Keys(mappings) \cup Keys(mappings') :
            ListedTransition(StateOf(mappings, key), StateOf(mappings', key)) ]_vars

\* C5: every read and every change of the mapping list and of the
\* connection lists is made with nat->lock held; outside the lock the
\* ingress worker has only its copy of a mapping.
C5_TableUnderLock == ~unlockedAccess

\* the ingress worker holds a copy of a mapping, between its lookup and its
\* update, while the timer thread owns the lock and walks the table
C5_Witness ==
    /\ pcIn = "tcpOutbound" /\ natCopy # <<>>
    /\ pcTimer = "walk" /\ Holds(natLock, Timer)
    /\ Len(mappings) > 0

-----------------------------------------------------------------------------
(* Properties of the router *)

\* C4: whatever frame arrives and whatever the routing table, the ARP cache
\* and the NAT table hold, sr_handlepacket returns to its caller: no frame
\* makes the process abort or fail an assertion.
C4_AlwaysReturns == ~aborted

\* C9: a datagram the router forwards leaves with a TTL strictly smaller
\* than the TTL it arrived with, for every arriving TTL from 0 to 255.
C9_TtlDecreases ==
    \A i \in 1..Len(emitted) :
        ( /\ fwd # <<>> /\ fwd[1].dir = "forward"
          /\ emitted[i].type = "ip" /\ emitted[i].ip[1] = fwd[1].pkt )
        => emitted[i].ip[1].ttl < fwd[1].received.ttl

\* C10: no emitted frame has the broadcast address as its source address,
\* and none is addressed to the hardware address of the interface it is
\* sent from, whatever addresses the received ARP packets carried.
C10_NoBroadcastSourceNoOwnDestination ==
    \A i \in 1..Len(emitted) :
        /\ emitted[i].shost # broadcastEthernetAddress
        /\ emitted[i].dhost # sr_get_interface(emitted[i].iface).addr

-----------------------------------------------------------------------------
(* Properties of the locks *)

-----------------------------------------------------------------------------
(* Properties of the datagrams sent *)

\* C11: every IP datagram handed to sr_send_packet, whether the router made
\* it, forwarded it or translated it, has an ip_sum that verifies over the
\* header it leaves with.
C11_IpChecksumVerifies ==
    \A i \in 1..Len(emitted) :
        emitted[i].type = "ip" => IpChecksumVerifies(emitted[i].ip[1])

-----------------------------------------------------------------------------
(* Properties of ARP handling *)

\* the link layer hands a frame on when it is addressed to the receiving
\* interface or to everyone
LinkAccepts(frame) ==
    frame.dhost \in {sr_get_interface(frame.iface).addr, broadcastEthernetAddress}

\* f is an ARP reply leaving on iface for the sender of the ARP packet
\* request, telling that the address ip is at mac
IsArpReplyTo(f, iface, request, mac, ip) ==
    /\ f.type = "arp" /\ f.iface = iface
    /\ f.dhost = request.sha
    /\ f.arp.op = "reply"
    /\ f.arp.sha = mac /\ f.arp.sip = ip
    /\ f.arp.tip = request.sip

\* C12 as stated: an ARP request for the address of any interface of the
\* router is answered with exactly one frame, an ARP reply on the receiving
\* interface to the requester, telling the hardware address of the
\* interface that has the address asked for.
C12_AnyInterfaceAnswered ==
    [][\A frame \in ArpFrames :
          ( /\ frame.type = "arp" /\ frame.arp.op = "request"
            /\ LinkAccepts(frame)
            /\ \E n \in IfNames : sr_get_interface(n).ip = frame.arp.tip
            /\ sr_handlepacket_Queued(frame, MaxArpQueued) )
          => \E n \in IfNames :
                /\ sr_get_interface(n).ip = frame.arp.tip
                /\ Len(emitted') = 1
                /\ IsArpReplyTo(emitted'[1], frame.iface, frame.arp,
                                sr_get_interface(n).addr, sr_get_interface(n).ip)
      ]_vars

\* C12, amended: an ARP request for the address of the interface it arrives
\* on is answered with exactly one frame, an ARP reply on that interface to
\* the sender hardware address of the request, telling the interface's
\* hardware address and address, with the requester's address as target; a
\* request for the address of another interface is not answered.
C12_ReceivingInterfaceAnswered ==
    [][\A frame \in ArpFrames :
          ( /\ frame.type = "arp" /\ frame.arp.op = "request"
            /\ LinkAccepts(frame)
            /\ sr_handlepacket_Queued(frame, MaxArpQueued) )
          => IF frame.arp.tip = sr_get_interface(frame.iface).ip
             THEN /\ Len(emitted') = 1
                  /\ IsArpReplyTo(emitted'[1], frame.iface, frame.arp,
                                  sr_get_interface(frame.iface).addr,
                                  sr_get_interface(frame.iface).ip)
             ELSE emitted' = <<>>
      ]_vars

\* an ARP reply of the router has just left
C12_Witness ==
    /\ Len(emitted) = 1
    /\ emitted[1].type = "arp" /\ emitted[1].arp.op = "reply"
    /\ emitted[1].arp.sip = sr_get_interface(emitted[1].iface).ip

\* the address the router sends a datagram toward when it handles the
\* received datagram packet: the sender, for an answer or an ICMP error,
\* or the destination, for a datagram in transit
SentToward(packet, iface) ==
    IF networkIpDestinationIsUs(packet) THEN packet.src
    ELSE IF packet.ttl = 1 THEN packet.src
    ELSE LET forwardRoute == networkGetPacketRoute(packet.dst)
         IN  IF forwardRoute = <<>> \/ forwardRoute[1].interface = iface
             THEN packet.src
             ELSE packet.dst

\* handling the received datagram packet makes the router send a datagram:
\* an echo reply, an ICMP error for a datagram of another host, or the
\* datagram itself on its way
SendsDatagram(packet, iface) ==
    IF networkIpDestinationIsUs(packet)
    THEN IF packet.proto = "icmp"
         THEN packet.type = icmp_type_echo_request
         ELSE ~networkIpSourceIsUs(packet)
    ELSE IF packet.ttl = 1 THEN TRUE
    ELSE LET forwardRoute == networkGetPacketRoute(packet.dst)
         IN  (forwardRoute # <<>> /\ forwardRoute[1].interface # iface)
             \/ ~networkIpSourceIsUs(packet)

\* f is the broadcast ARP request that asks on the interface named iface
\* who has the address ip
IsArpRequestFor(f, iface, ip) ==
    /\ f.type = "arp" /\ f.iface = iface
    /\ f.dhost = broadcastEthernetAddress
    /\ f.arp.op = "request"
    /\ f.arp.sip = sr_get_interface(iface).ip
    /\ f.arp.tip = ip

QueuedFor(reqs, ip) ==
    LET i == FirstIndex(reqs, 1, ip)
    IN  IF i = 0 THEN <<>> ELSE reqs[i].packets

-----------------------------------------------------------------------------
(* Properties of the datagrams the router makes *)

IpFramesOf(frames) == SelectSeq(frames, LAMBDA f : f.type = "ip")

\* the pending requests whose queue is longer after the step than before
GrownQueues ==
    { i \in 1..Len(arpReqs') :
        Len(arpReqs'[i].packets) > Len(QueuedFor(arpReqs, arpReqs'[i].ip)) }

\* the step sent, or put on the queue of a pending ARP request, exactly one
\* IP datagram, and P holds of it
OneDatagramLeaves(P(_)) ==
    \/ /\ Len(IpFramesOf(emitted')) = 1
       /\ GrownQueues = {}
       /\ P(IpFramesOf(emitted')[1].ip[1])
    \/ /\ IpFramesOf(emitted') = <<>>
       /\ \E i \in GrownQueues :
             /\ GrownQueues = {i}
             /\ Len(arpReqs'[i].packets)
                   = Len(QueuedFor(arpReqs, arpReqs'[i].ip)) + 1
             /\ P(arpReqs'[i].packets[Len(arpReqs'[i].packets)].ip[1])

IsEchoReplyTo(reply, request) ==
    /\ reply.proto = "icmp" /\ reply.type = icmp_type_echo_reply
    /\ reply.src = request.dst /\ reply.dst = request.src
    /\ reply.ttl = DEFAULT_TTL
    /\ reply.ident = request.ident

\* C14: an ICMP echo request addressed to an interface of the router makes
\* the router send (at once, or through the ARP queue) exactly one echo
\* reply to the requester, from the address the request was sent to, with
\* TTL 64 and the identifier of the request.
C14_EchoRequestAnswered ==
    [][\A frame \in ArpFrames :
          ( /\ frame.type = "ip" /\ LinkAccepts(frame)
            /\ frame.ip[1].proto = "icmp"
            /\ frame.ip[1].type = icmp_type_echo_request
            /\ networkIpDestinationIsUs(frame.ip[1])
            /\ sr_handlepacket_Queued(frame, MaxArpQueued) )
          => /\ ~aborted'
             /\ LET IsReply(p) == IsEchoReplyTo(p, frame.ip[1])
                IN  OneDatagramLeaves(IsReply)
      ]_vars

\* p is the ICMP time exceeded that answers the datagram original
IsTimeExceededFor(p, original) ==
    /\ p.proto = "icmp"
    /\ p.type = icmp_type_time_exceeded
    /\ p.dst = original.src
    /\ p.inner = << [original EXCEPT !.inner = <<>>] >>

\* C20: a datagram for another host that arrives with the TTL whose
\* decrement gives 0 makes the router send (at once, or through the ARP
\* queue) one ICMP time exceeded toward its sender and nothing else: the
\* datagram is not forwarded.
C20_TtlExpiredAnswered ==
    [][\A frame \in ArpFrames :
          ( /\ frame.type = "ip" /\ LinkAccepts(frame)
            /\ ~networkIpDestinationIsUs(frame.ip[1])
            /\ frame.ip[1].ttl - 1 = 0
            /\ sr_handlepacket_Queued(frame, MaxArpQueued) )
          => /\ ~aborted'
             /\ LET IsAnswer(p) == IsTimeExceededFor(p, frame.ip[1])
                IN  OneDatagramLeaves(IsAnswer)
      ]_vars

-----------------------------------------------------------------------------
(* Properties of the ARP request queue *)

\* C15: when an ARP reply for the receiving interface's address arrives
\* while a request is pending for the address of its sender, the frames
\* emitted are the frames queued on that request, each once and in the
\* order of the queue, addressed to the sender hardware address of the
\* reply, and the request is gone afterwards.
C15_ReplyFlushesQueue ==
    [][\A frame \in ArpFrames :
          ( /\ frame.type = "arp" /\ frame.arp.op = "reply"
            /\ LinkAccepts(frame)
            /\ frame.arp.tip = sr_get_interface(frame.iface).ip
            /\ FirstIndex(arpReqs, 1, frame.arp.sip) # 0
            /\ sr_handlepacket_Queued(frame, MaxArpQueued) )
          => LET queue == QueuedFor(arpReqs, frame.arp.sip)
             IN  /\ Len(emitted') = Len(queue)
                 /\ \A i \in 1..Len(queue) :
                       emitted'[i] = [queue[i] EXCEPT !.dhost = frame.arp.sha]
                 /\ FirstIndex(arpReqs', 1, frame.arp.sip) = 0
      ]_vars

\* two different datagrams that waited for the same next hop have just left
\* for the hardware address learned
C15_Witness ==
    /\ Len(emitted) = 2
    /\ emitted[1].type = "ip" /\ emitted[2].type = "ip"
    /\ emitted[1].ip # emitted[2].ip
    /\ emitted[1].dhost = MacOf(InternetGw) /\ emitted[2].dhost = MacOf(InternetGw)
    /\ FirstIndex(arpReqs, 1, InternetGw) = 0
    /\ FirstIndex(arpCache, 1, InternetGw) # 0

\* the retry thread is in a sweep that gives the request up
GivenUp(request) ==
    /\ pcArp = "sweep"
    /\ request.times_sent >= ARP_MAX_TRIES
    /\ now - request.sent >= 1

\* C16: whatever the ingress worker and the ARP retry thread have done, no
\* two pending requests are for the same next-hop address, and for as long
\* as a request is pending (it has not been answered or given up) the
\* frames sent toward its next hop are added to the end of its queue.
C16_OneRequestPerNextHop ==
    [][ /\ \A i, j \in 1..Len(arpReqs') :
              i # j => arpReqs'[i].ip # arpReqs'[j].ip
        /\ \A i \in 1..Len(arpReqs) :
              LET before == arpReqs[i].packets
                  after == QueuedFor(arpReqs', arpReqs[i].ip)
              IN  ( FirstIndex(arpReqs', 1, arpReqs[i].ip) # 0
                    /\ ~GivenUp(arpReqs[i]) )
                  => /\ Len(after) >= Len(before)
                     /\ SubSeq(after, 1, Len(before)) = before
      ]_vars

\* two next hops are being asked for, and a second frame has joined the
\* queue of a request the retry thread has broadcast again
C16_Witness ==
    /\ Len(arpReqs) = 2
    /\ \E i \in 1..Len(arpReqs) :
          /\ Len(arpReqs[i].packets) = 2
          /\ arpReqs[i].times_sent >= 2
          /\ arpReqs[i].packets[1].ip # arpReqs[i].packets[2].ip

\* p is the ICMP destination unreachable, host unreachable, that answers
\* the datagram original
IsHostUnreachableFor(p, original) ==
    /\ p.proto = "icmp"
    /\ p.type = icmp_type_desination_unreachable
    /\ p.code = icmp_code_destination_host_unreachable
    /\ p.dst = original.src
    /\ p.inner = << [original EXCEPT !.inner = <<>>] >>

\* the datagrams sent by the step or waiting on a queue after it
SentOrQueued ==
    { emitted'[i].ip[1] : i \in { k \in 1..Len(emitted') : emitted'[k].type = "ip" } }
    \cup UNION { { arpReqs'[i].packets[k].ip[1] : k \in 1..Len(arpReqs'[i].packets) }
                 : i \in 1..Len(arpReqs') }

\* the request for the next hop ip is one the sweep gives up as well: what
\* is sent through that next hop is discarded with it
StillGivenUp(ip) ==
    \E m \in 1..Len(arpReqs) : arpReqs[m].ip = ip /\ GivenUp(arpReqs[m])

\* C17: a request nobody answers is broadcast again only when a second has
\* passed since its last broadcast, and never more than five times; the
\* sweep that finds it at five broadcasts a second old destroys it and
\* sends (at once, or through the ARP queue), toward the sender of each
\* frame of another host that waited on it, an ICMP destination
\* unreachable with code host unreachable, and the router runs on.
C17_FiveBroadcastsThenHostUnreachable ==
    [][ /\ \A i \in 1..Len(arpReqs') : arpReqs'[i].times_sent <= ARP_MAX_TRIES
        /\ \A i \in 1..Len(arpReqs) :
              LET request == arpReqs[i]
                  j == FirstIndex(arpReqs', 1, request.ip)
              IN  IF GivenUp(request) /\ pcArp' = "sleep"
                  THEN /\ ~aborted'
                       /\ j # 0 => arpReqs'[j].times_sent = 1
                       /\ \A k \in 1..Len(request.packets) :
                             LET original == request.packets[k].ip[1]
                                 icmpRoute == networkGetPacketRoute(original.src)
                             IN  ( /\ ~networkIpSourceIsUs(original)
                                   /\ icmpRoute # <<>>
                                   /\ ~StillGivenUp(icmpRoute[1].gw) )
                                 => \E p \in SentOrQueued :
                                       IsHostUnreachableFor(p, original)
                  ELSE j # 0 /\ arpReqs'[j].times_sent # request.times_sent
                       => /\ arpReqs'[j].times_sent = request.times_sent + 1
                          /\ now - request.sent >= 1
                          /\ \E k \in 1..Len(emitted') :
                                IsArpRequestFor(emitted'[k],
                                    request.requestedInterface, request.ip)
      ]_vars

\* a datagram the router itself is the source of
SelfOriginated(packet) ==
    \E n \in IfNames : packet.src = sr_get_interface(n).ip

\* C18: no ICMP destination unreachable that is sent, or waits to be sent,
\* answers a datagram whose source is an address of the router; and when
\* the retry thread gives up a request, the datagrams of the router that
\* waited on it are neither sent nor queued again.
C18_NoErrorForOwnDatagram ==
    [][ /\ \A p \in SentOrQueued :
              ( p.proto = "icmp" /\ p.type = icmp_type_desination_unreachable )
              => ~SelfOriginated(p.inner[1])
        /\ \A i \in 1..Len(arpReqs) :
              ( GivenUp(arpReqs[i]) /\ pcArp' = "sleep" )
              => \A k \in 1..Len(arpReqs[i].packets) :
                    SelfOriginated(arpReqs[i].packets[k].ip[1])
                    => arpReqs[i].packets[k].ip[1] \notin SentOrQueued
      ]_vars

\* the retry thread is in the sweep that gives up a request on which a
\* datagram of the router waits
C18_Witness ==
    /\ ~aborted
    /\ \E i \in 1..Len(arpReqs) :
          /\ GivenUp(arpReqs[i])
          /\ \E k \in 1..Len(arpReqs[i].packets) :
                SelfOriginated(arpReqs[i].packets[k].ip[1])
    /\ ENABLED sr_arpcache_timeout_Queued(MaxArpQueued)

-----------------------------------------------------------------------------
(* Properties of the NAT's filter *)

\* the datagram came in from outside for the address of the internal
\* interface
OutsideToInternalAddress(in) ==
    /\ sr_get_interface(in.iface).ip # sr_get_interface(internalInterfaceName).ip
    /\ in.ip.dst = sr_get_interface(internalInterfaceName).ip

-----------------------------------------------------------------------------
(* The router started with other routing tables: subnet routes, whose      *)
(* masks are not the same read from either end, and two routes to one      *)
(* host.  The datagrams include ones that come in on an interface other    *)
(* than the one that leads back to their sender.                           *)

SubnetMask == IpAddr(255, 255, 255, 0)
InternalNet == IpAddr(107, 23, 115, 0)
ServerNet == IpAddr(107, 23, 114, 0)

SubnetRoutes ==
    << [dest |-> InternalNet, gw |-> InternalHost, mask |-> SubnetMask,
        interface |-> "eth1"],
       [dest |-> ServerNet, gw |-> ServerTwo, mask |-> SubnetMask,
        interface |-> "eth2"] >>

\* two routes to the internal host, through different interfaces
TiedRoutes ==
    << [dest |-> InternalHost, gw |-> InternalHost, mask |-> AllOnes,
        interface |-> "eth1"],
       [dest |-> InternalHost, gw |-> ServerTwo, mask |-> AllOnes,
        interface |-> "eth2"] >>

RouteTables ==
    { <<DefaultRoute>> \o HostRoutes,
      HostRoutes \o <<DefaultRoute>>,
      <<DefaultRoute>> \o SubnetRoutes,
      TiedRoutes \o <<DefaultRoute>> }

\* the addresses the router looks up a route for
RouteQueries == { InternalHost, ServerTwo, InternetHost, InternetGw }

RouteFrames ==
    { IpFrame("eth1", sr_get_interface("eth1").addr, MacOf(InternalHost),
              IcmpEcho(icmp_type_echo_request, src, ServerTwo, EchoIdent, ttl))
        : src \in {InternalHost, InternetHost}, ttl \in {1, ArrivalTtl} }
    \cup
    { IpFrame("eth3", sr_get_interface("eth3").addr, MacOf(InternetGw),
              IcmpEcho(icmp_type_echo_request, src, InternetHost, EchoIdent,
                       ArrivalTtl)) : src \in {InternalHost, InternetHost} }
    \cup
    { IpFrame("eth3", sr_get_interface("eth3").addr, MacOf(InternetGw),
              TcpPacket(InternetHost, ServerPort, sr_get_interface("eth3").ip,
                        InternalPort, TRUE, FALSE, ArrivalTtl)),
      ArpFrame("eth3", sr_get_interface("eth3").addr, MacOf(InternetGw),
               ArpPacket("reply", MacOf(InternetGw), InternetGw,
                         sr_get_interface("eth3").ip)) }

InitRoutes ==
    /\ routing_table \in RouteTables
    /\ sr_nat_init
    /\ now = 0
    /\ arpLock = FreeLock
    /\ arpCache = <<>>
    /\ arpReqs = <<>>
    /\ pcIn = "idle" /\ pkt = <<>> /\ natCopy = <<>>
    /\ pcTimer = "sleep" /\ pcArp = "sleep"
    /\ emitted = <<>> /\ fwd = <<>>
    /\ aborted = FALSE
    /\ unlockedAccess = FALSE
    /\ lockOrder = {}
    /\ lastOut = {}

NextRoutes ==
    \/ \E frame \in RouteFrames : sr_handlepacket(frame) /\ UNCHANGED lastOut
    \/ sr_arpcache_timeout_Lock /\ UNCHANGED lastOut
    \/ sr_arpcache_timeout_Sweep /\ UNCHANGED lastOut
    \/ Tick /\ UNCHANGED lastOut

SpecRoutes == InitRoutes /\ [][NextRoutes]_vars

-----------------------------------------------------------------------------
(* Properties of the ICMP errors and of the route lookup *)

\* the datagrams the router has just sent or keeps on the queue of a
\* pending ARP request
Outgoing ==
    { emitted[i].ip[1] : i \in { k \in 1..Len(emitted) : emitted[k].type = "ip" } }
    \cup UNION { { arpReqs[i].packets[k].ip[1] : k \in 1..Len(arpReqs[i].packets) }
                 : i \in 1..Len(arpReqs) }

\* C21: every ICMP destination unreachable and time exceeded of the router
\* is addressed to the sender of the datagram it answers, and its source is
\* the address of the interface the route lookup gives for that sender,
\* whatever interface the datagram came in on.
C21_ErrorFromInterfaceTowardSender ==
    \A p \in Outgoing :
        ( /\ p.proto = "icmp"
          /\ p.type \in {icmp_type_desination_unreachable, icmp_type_time_exceeded} )
        => LET icmpRoute == networkGetPacketRoute(p.inner[1].src)
           IN  /\ p.dst = p.inner[1].src
               /\ icmpRoute # <<>>
               /\ p.src = sr_get_interface(icmpRoute[1].interface).ip

\* the number of 1 bits the mask a.b.c.d starts with
LeadingOneBits(mask) == MaskScan(mask, 1, 0)

\* (query & mask) == (dest & mask)
Matches(route, query) == And32(query, route.mask) = And32(route.dest, route.mask)

Matching(query) ==
    { i \in 1..Len(routing_table) : Matches(routing_table[i], query) }

\* the first of the matching routes whose mask is the longest
LongestMatch(query) ==
    CHOOSE i \in Matching(query) :
        \A j \in Matching(query) :
            \/ LeadingOneBits(routing_table[j].mask)
                  < LeadingOneBits(routing_table[i].mask)
            \/ /\ LeadingOneBits(routing_table[j].mask)
                     = LeadingOneBits(routing_table[i].mask)
               /\ i <= j

\* C22: the route lookup returns the route that matches the address under
\* its own mask and has the longest mask of the matching routes, the first
\* in table order of those that tie, and no route only when none matches.
C22_LongestPrefixFirstMatch ==
    \A query \in RouteQueries :
        networkGetPacketRoute(query) =
            IF Matching(query) = {} THEN <<>>
            ELSE << routing_table[LongestMatch(query)] >>

-----------------------------------------------------------------------------
(* Properties of the NAT's handling of TCP *)

\* the frames of a step that carry an IP datagram
IpDatagrams(frames) ==
    [i \in 1..Len(SelectSeq(frames, LAMBDA f : f.type = "ip")) |->
        SelectSeq(frames, LAMBDA f : f.type = "ip")[i].ip[1]]

\* C23: when the ingress worker finishes a TCP SYN that came in on the
\* internal interface for another host, and its lookup by (source address,
\* source port) had found no mapping, the table gains exactly one mapping,
\* at its head: a TCP mapping of that endpoint whose external port is the
\* next port of the allocator, with exactly one connection, in OUTBOUND_SYN,
\* to the (destination address, destination port) of the SYN; and the SYN
\* leaves as one datagram with the egress interface's address and the
\* mapping's external port as its source.
C23_OutboundSynCreatesMapping ==
    [][ ( /\ pcIn = "tcpOutbound" /\ pcIn' = "idle"
          /\ pkt[1].ip.syn
          /\ natCopy = <<>> )
        => LET packet == pkt[1].ip
               m == mappings'[1]
           IN  /\ ~aborted'
               /\ mappings' = <<m>> \o mappings
               /\ m.type = nat_mapping_tcp
               /\ m.ip_int = packet.src /\ m.aux_int = packet.sport
               /\ m.aux_ext = nextTcpPortNumber
               /\ nextTcpPortNumber' = NextPort(nextTcpPortNumber)
               /\ Len(m.conns) = 1
               /\ m.conns[1].connectionState = nat_conn_outbound_syn
               /\ m.conns[1].ip = packet.dst /\ m.conns[1].port = packet.dport
               /\ IpDatagrams(emitted') =
                     << [packet EXCEPT !.src = EgressIp(packet.dst)[1],
                                       !.sport = m.aux_ext] >>
      ]_vars

\* a SYN of the internal host has just been translated through a mapping
\* made for it, next to an older mapping, at a later time
C23_Witness ==
    /\ now > 0
    /\ Len(mappings) = 2
    /\ mappings[1].type = nat_mapping_tcp
    /\ Len(mappings[1].conns) = 1
    /\ mappings[1].conns[1].connectionState = nat_conn_outbound_syn
    /\ mappings[1].conns[1].lastAccessed = now
    /\ fwd # <<>> /\ fwd[1].dir = "out"
    /\ fwd[1].received.proto = "tcp" /\ fwd[1].received.syn
    /\ fwd[1].pkt.sport = mappings[1].aux_ext
    /\ emitted # <<>>

\* the table holds a connection that waits for a simultaneous open with
\* the sender of the SYN packet, and keeps a copy of it
PendingFor(maps, packet) ==
    \E i \in 1..Len(maps) :
        /\ maps[i].type = nat_mapping_tcp
        /\ \E j \in 1..Len(maps[i].conns) :
              /\ maps[i].conns[j].connectionState = nat_conn_inbound_syn_pending
              /\ maps[i].conns[j].ip = packet.src
              /\ maps[i].conns[j].port = packet.sport
              /\ maps[i].conns[j].queuedInboundSyn = LiveSyn(packet)

\* C24: when the ingress worker finishes a TCP SYN that came in on an
\* external interface for an interface address of the router, and its
\* lookup by destination port had found no TCP mapping, no frame is emitted
\* and the table holds a connection in INBOUND_SYN_PENDING with a copy of
\* the SYN.
C24_UnmappedInboundSynQueued ==
    [][ ( /\ pcIn = "tcpInbound" /\ pcIn' = "idle"
          /\ pkt[1].ip.syn
          /\ networkIpDestinationIsUs(pkt[1].ip)
          /\ natCopy = <<>> )
        => /\ emitted' = <<>>
           /\ PendingFor(mappings', pkt[1].ip)
      ]_vars

-----------------------------------------------------------------------------
(* The NAT with traffic that passes by it: datagrams that come in on an    *)
(* external interface for hosts other than the router, next to the traffic *)
(* of the internal host, with either routing table.                        *)

TransitInputs ==
    { Received("eth2", TcpPacket(ServerTwo, ServerPort, InternetHost,
                                 STARTING_PORT_NUMBER, syn, FALSE, ArrivalTtl))
        : syn \in BOOLEAN }
    \cup
    { Received("eth2", IcmpEcho(icmp_type_echo_request, ServerTwo, InternalHost,
                                EchoIdent, ArrivalTtl)) }

InitTransit ==
    /\ routing_table \in RoutingTables
    /\ sr_nat_init
    /\ now = 0
    /\ arpLock = FreeLock
    /\ arpCache = WarmCache
    /\ arpReqs = <<>>
    /\ pcIn = "idle" /\ pkt = <<>> /\ natCopy = <<>>
    /\ pcTimer = "sleep" /\ pcArp = "sleep"
    /\ emitted = <<>> /\ fwd = <<>>
    /\ aborted = FALSE
    /\ unlockedAccess = FALSE
    /\ lockOrder = {}
    /\ lastOut = {}

NextTransit ==
    \/ \E in \in { i \in TcpInputs \cup TransitInputs : i.ip.proto = "tcp" } :
           natHandleTcpPacket_Lookup(in) /\ UNCHANGED lastOut
    \/ natHandleTcpPacket_Outbound /\ UNCHANGED lastOut
    \/ natHandleTcpPacket_Inbound /\ UNCHANGED lastOut
    \/ \E in \in { i \in IcmpInputs \cup TransitInputs : i.ip.proto = "icmp" } :
           natHandleIcmpPacket(in) /\ UNCHANGED lastOut
    \/ sr_nat_timeout_Lock /\ UNCHANGED lastOut
    \/ sr_nat_timeout_Walk /\ UNCHANGED lastOut
    \/ Tick /\ UNCHANGED lastOut

SpecTransit == InitTransit /\ [][NextTransit]_vars

\* p is the ICMP destination unreachable, port unreachable, that answers
\* the datagram original
IsPortUnreachableFor(p, original) ==
    /\ p.proto = "icmp"
    /\ p.type = icmp_type_desination_unreachable
    /\ p.code = icmp_code_destination_port_unreachable
    /\ p.dst = original.src
    /\ p.inner = << [original EXCEPT !.inner = <<>>] >>

\* C25: when the ingress worker finishes a TCP segment without SYN that
\* came in on an external interface, and its lookup by destination port had
\* found no TCP mapping (none was ever made, or the one that had the port
\* has expired), the segment is not forwarded and exactly one frame leaves:
\* an ICMP port unreachable for the segment, to its sender.
C25_UnmappedInboundAnsweredPortUnreachable ==
    [][ ( /\ pcIn = "tcpInbound" /\ pcIn' = "idle"
          /\ ~pkt[1].ip.syn
          /\ natCopy = <<>> )
        => /\ ~aborted'
           /\ fwd' = <<>>
           /\ Len(emitted') = 1
           /\ emitted'[1].type = "ip"
           /\ IsPortUnreachableFor(emitted'[1].ip[1], pkt[1].ip)
      ]_vars

\* the datagram came in from outside for a host other than the router,
\* one the routing table has a route to
Deflected(in) ==
    /\ sr_get_interface(in.iface).ip # sr_get_interface(internalInterfaceName).ip
    /\ ~networkIpDestinationIsUs(in.ip)
    /\ networkGetPacketRoute(in.ip.dst) # <<>>

\* q is the datagram p with the addresses, ports and identifier it came with
SameEndpoints(q, p) ==
    /\ q.proto = p.proto
    /\ q.src = p.src /\ q.dst = p.dst
    /\ q.sport = p.sport /\ q.dport = p.dport
    /\ q.ident = p.ident

\* C26: with NAT enabled, a datagram that comes in on an external interface
\* for a host other than the router, and that has a route, leaves the router as one datagram with
\* the addresses, ports and identifier it came with, and handling it leaves
\* the NAT's mappings, connections and counters as they were.
C26_DeflectedForwardedUntranslated ==
    [][ /\ \A in \in { i \in IcmpInputs \cup TransitInputs : i.ip.proto = "icmp" } :
              ( Deflected(in) /\ natHandleIcmpPacket(in) )
              => /\ ~aborted'
                 /\ natVars' = natVars
                 /\ Len(IpDatagrams(emitted')) = 1
                 /\ SameEndpoints(IpDatagrams(emitted')[1], in.ip)
        /\ \A in \in { i \in TcpInputs \cup TransitInputs : i.ip.proto = "tcp" } :
              ( Deflected(in) /\ natHandleTcpPacket_Lookup(in) )
              => natVars' = natVars
        /\ ( /\ pcIn = "tcpInbound" /\ pcIn' = "idle"
             /\ Deflected(pkt[1]) )
           => /\ ~aborted'
              /\ natVars' = natVars
              /\ Len(IpDatagrams(emitted')) = 1
              /\ SameEndpoints(IpDatagrams(emitted')[1], pkt[1].ip)
      ]_vars

-----------------------------------------------------------------------------
(* The NAT with a timer thread that is scheduled: sr_nat_timeout sleeps a  *)
(* second, takes nat->lock, walks the table and unlocks, for ever, and     *)
(* time(NULL) moves on.  A thread that can take its next step takes it in  *)
(* the end; nothing makes a frame arrive.  Two TCP flows share the mapping *)
(* of the internal host: the one it opens, and one a peer tries to open    *)
(* from outside; an echo request makes the ICMP mapping.                   *)

FairInputs ==
    LockTcpInputs
    \cup
    { Received("eth1", TcpPacket(InternalHost, InternalPort, InternetHost,
                                 OtherPort, TRUE, FALSE, ArrivalTtl)),
      Received("eth1", IcmpEcho(icmp_type_echo_request, InternalHost, ServerTwo,
                                EchoIdent, ArrivalTtl)),
      Received("eth2", IcmpEcho(icmp_type_echo_reply, ServerTwo,
                                sr_get_interface("eth2").ip,
                                STARTING_PORT_NUMBER, ArrivalTtl)) }

NextFair ==
    \/ \E in \in { i \in FairInputs : i.ip.proto = "tcp" } :
           natHandleTcpPacket_Lookup(in) /\ UNCHANGED lastOut
    \/ natHandleTcpPacket_Outbound /\ UNCHANGED lastOut
    \/ natHandleTcpPacket_Inbound /\ UNCHANGED lastOut
    \/ \E in \in { i \in FairInputs : i.ip.proto = "icmp" } :
           natHandleIcmpPacket(in) /\ UNCHANGED lastOut
    \/ sr_nat_timeout_Lock /\ UNCHANGED lastOut
    \/ sr_nat_timeout_Walk /\ UNCHANGED lastOut
    \/ Tick /\ UNCHANGED lastOut

SpecFair ==
    /\ Init
    /\ [][NextFair]_vars
    /\ WF_vars(sr_nat_timeout_Lock /\ UNCHANGED lastOut)
    /\ WF_vars(sr_nat_timeout_Walk /\ UNCHANGED lastOut)
    /\ WF_vars(Tick /\ UNCHANGED lastOut)

\* the ports of the peer's ends of the TCP flows
TcpPeerPorts == { ServerPort, OtherPort }

\* the connections of the table's TCP mappings with the peer's port
ConnectionsWith(port) ==
    { mappings[i].conns[j] :
        <<i, j>> \in { ij \in (1..Len(mappings)) \X (1..MaxMappings + 1) :
                         /\ mappings[ij[1]].type = nat_mapping_tcp
                         /\ ij[2] <= Len(mappings[ij[1]].conns)
                         /\ mappings[ij[1]].conns[ij[2]].port = port } }

\* the flow's connection has been idle for longer than the timeout of its
\* state
Overdue(port) == \E conn \in ConnectionsWith(port) : TimedOut(conn)

\* C27: a TCP connection that has been idle for longer than the timeout of
\* its state does not stay so for ever: the timer destroys it (or a segment
\* of its flow touches it, or the process has ended), whatever frames of
\* other flows arrive.
C27_IdleConnectionDestroyed ==
    \A port \in TcpPeerPorts : Overdue(port) ~> (~Overdue(port) \/ aborted)

-----------------------------------------------------------------------------
(* Properties of the NAT timer's passes *)

\* the connections of a list that have not timed out, in the list's order
Surviving(conns) == SelectSeq(conns, LAMBDA conn : ~TimedOut(conn))

\* where the mapping with the external port is in the table (0: nowhere)
TcpMappingAt(maps, aux_ext) ==
    natTrustedLookupExternal(maps, aux_ext, nat_mapping_tcp)

\* C28: a pass of the NAT timer leaves no TCP mapping without connections
\* in the table; a TCP mapping that was in the table before the pass is
\* gone after it exactly if every one of its connections had timed out, and
\* otherwise is still there with the connections that had not.
C28_MappingGoesWithLastConnection ==
    [][ ( pcTimer = "walk" /\ pcTimer' = "sleep" )
        => /\ \A k \in 1..Len(mappings') :
                 mappings'[k].type = nat_mapping_tcp => mappings'[k].conns # <<>>
           /\ \A i \in 1..Len(mappings) :
                 mappings[i].type = nat_mapping_tcp
                 => LET k == TcpMappingAt(mappings', mappings[i].aux_ext)
                    IN  IF Surviving(mappings[i].conns) = <<>>
                        THEN k = 0
                        ELSE /\ k # 0
                             /\ mappings'[k].conns = Surviving(mappings[i].conns)
      ]_vars

\* the timer has passed and has left a TCP mapping with one connection, the
\* second the mapping was given: the first has timed out, the mapping stays
C28_Witness ==
    /\ pcTimer = "sleep" /\ ~aborted
    /\ natLock = FreeLock
    /\ \E i \in 1..Len(mappings) :
          /\ mappings[i].type = nat_mapping_tcp
          /\ Len(mappings[i].conns) = 1
          /\ mappings[i].conns[1].lastAccessed > now

\* where the ICMP mapping with the external identifier is (0: nowhere)
IcmpMappingAt(maps, aux_ext) ==
    natTrustedLookupExternal(maps, aux_ext, nat_mapping_icmp)

\* an ICMP mapping was made, or last matched by a lookup, more than
\* icmpTimeout seconds ago
IcmpOverdue ==
    \E i \in 1..Len(mappings) :
        /\ mappings[i].type = nat_mapping_icmp
        /\ now - mappings[i].last_updated > icmpTimeout

\* C29: an ICMP mapping leaves the table in a step exactly if the step is a
\* pass of the NAT timer and more than icmpTimeout seconds have gone by
\* since the mapping was made or last matched by a lookup; and passes keep
\* coming: a mapping that old does not stay in the table for ever.
C29_IcmpMappingDestroyedOnTime ==
    /\ [][ \A i \in 1..Len(mappings) :
              mappings[i].type = nat_mapping_icmp
              => LET k == IcmpMappingAt(mappings', mappings[i].aux_ext)
                 IN  IF /\ pcTimer = "walk" /\ pcTimer' = "sleep"
                        /\ now - mappings[i].last_updated > icmpTimeout
                     THEN k = 0
                     ELSE k # 0
         ]_vars
    /\ IcmpOverdue ~> (~IcmpOverdue \/ aborted)

\* the connections of the table's TCP mappings that wait with a queued SYN
\* and have timed out
PendingTimedOut ==
    { conn \in UNION { ConnectionsWith(port) : port \in TcpPeerPorts } :
        /\ conn.connectionState = nat_conn_inbound_syn_pending
        /\ TimedOut(conn) }

\* the frames among frames that carry the port unreachable for the SYN
AnswersTo(frames, syn) ==
    SelectSeq(frames, LAMBDA frame :
        frame.type = "ip" /\ IsPortUnreachableFor(frame.ip[1], syn))

\* the SYN from outside that FairInputs holds
OutsideSyn ==
    TcpPacket(InternetHost, OtherPort, sr_get_interface("eth3").ip,
              STARTING_PORT_NUMBER, TRUE, FALSE, ArrivalTtl)

-----------------------------------------------------------------------------
(* The simultaneous-open window.  The clock runs past the window; the SYN  *)
(* from outside arrives in the first second only, so that a connection     *)
(* waiting with a queued SYN has waited since then.  The timer thread and  *)
(* the clock are scheduled as in SpecFair.                                 *)

SIM_OPEN_INBOUND_TIMEOUT == 6

\* one second past the window
MaxOpenTime == 7

OpenInside ==
    { Received("eth1", TcpPacket(InternalHost, InternalPort, InternetHost,
                                 port, TRUE, FALSE, ArrivalTtl))
        : port \in TcpPeerPorts }

OpenOutside == { Received("eth3", OutsideSyn) }

NextOpen ==
    \/ \E in \in OpenInside : natHandleTcpPacket_Lookup(in) /\ UNCHANGED lastOut
    \/ \E in \in OpenOutside :
           now = 0 /\ natHandleTcpPacket_Lookup(in) /\ UNCHANGED lastOut
    \/ natHandleTcpPacket_Outbound /\ UNCHANGED lastOut
    \/ natHandleTcpPacket_Inbound /\ UNCHANGED lastOut
    \/ sr_nat_timeout_Lock /\ UNCHANGED lastOut
    \/ sr_nat_timeout_Walk /\ UNCHANGED lastOut
    \/ Clock(MaxOpenTime) /\ UNCHANGED lastOut

SpecOpen ==
    /\ Init
    /\ [][NextOpen]_vars
    /\ WF_vars(sr_nat_timeout_Lock /\ UNCHANGED lastOut)
    /\ WF_vars(sr_nat_timeout_Walk /\ UNCHANGED lastOut)
    /\ WF_vars(Clock(MaxOpenTime) /\ UNCHANGED lastOut)

\* a connection waits with the SYN from outside queued
PendingExists ==
    \E conn \in ConnectionsWith(OtherPort) :
        conn.connectionState = nat_conn_inbound_syn_pending

\* C31: a connection that has waited in INBOUND_SYN_PENDING for longer than
\* the simultaneous-open window does not go on waiting: the timer destroys
\* it (or the SYN from inside has met it, or the process has ended).
C31_PendingBoundedByOpenWindow ==
    ( PendingExists /\ now > SIM_OPEN_INBOUND_TIMEOUT )
        ~> ( ~PendingExists \/ aborted )

-----------------------------------------------------------------------------
(* The port allocator.  The router starts from the state of sr_nat_init or *)
(* from a state its run reaches after many mappings, where one or both     *)
(* counters stand at the last port.                                        *)

InitPorts ==
    /\ routing_table = <<DefaultRoute>> \o HostRoutes
    /\ mappings = <<>>
    /\ nextIcmpIdentNumber \in {STARTING_PORT_NUMBER, LAST_PORT_NUMBER}
    /\ nextTcpPortNumber \in {STARTING_PORT_NUMBER, LAST_PORT_NUMBER}
    /\ natLock = FreeLock
    /\ now = 0
    /\ arpLock = FreeLock
    /\ arpCache = WarmCache
    /\ arpReqs = <<>>
    /\ pcIn = "idle" /\ pkt = <<>> /\ natCopy = <<>>
    /\ pcTimer = "sleep" /\ pcArp = "sleep"
    /\ emitted = <<>> /\ fwd = <<>>
    /\ aborted = FALSE
    /\ unlockedAccess = FALSE
    /\ lockOrder = {}
    /\ lastOut = {}

SpecPorts == InitPorts /\ [][Next]_vars

\* the number that follows n in the range of the allocator
Following(n) == IF n = LAST_PORT_NUMBER THEN STARTING_PORT_NUMBER ELSE n + 1

-----------------------------------------------------------------------------
(* Properties of the ingress worker's use of nat->lock and of the          *)
(* connection records                                                      *)

\* C33: when the ingress worker is not inside the NAT's packet handling (its
\* handler has returned), it does not own nat->lock.
C33_IngressReleasesNatLock ==
    pcIn = "idle" => natLock.owner # Ingress

\* C34: while the ingress worker is between the lookup that gave it a copy
\* of a TCP mapping and its second lookup under the lock, the mapping is in
\* the table.
C34_MappingStillThereAtSecondLookup ==
    ( pcIn \in {"tcpOutbound", "tcpInbound"} /\ natCopy # <<>> )
        => TcpMappingAt(mappings, natCopy[1].aux_ext) # 0

\* C35: the queued inbound SYN of every connection in the table is absent
\* (NULL) or a live buffer: never a pointer the code has not set, never one
\* it has already freed.
C35_QueuedSynAbsentOrLive ==
    \A i \in 1..Len(mappings) :
        \A j \in 1..Len(mappings[i].conns) :
            mappings[i].conns[j].queuedInboundSyn.ptr \in {"null", "live"}

\* C36: when the ingress worker adds a connection to a TCP mapping that is
\* already in the table (for a SYN from inside to a new peer, or for a SYN
\* from outside), the connection's lastAccessed is the time of the step.
C36_NewConnectionStampedAtCreation ==
    [][ \A i \in 1..Len(mappings) :
           ( /\ Len(mappings') = Len(mappings)
             /\ mappings[i].type = nat_mapping_tcp
             /\ Len(mappings'[i].conns) = Len(mappings[i].conns) + 1 )
           => mappings'[i].conns[1].lastAccessed = now
      ]_vars

-----------------------------------------------------------------------------
(* Properties of the TCP connection states *)

\* where in the table the connection of an inbound segment is: the mapping
\* with the segment's destination port and in it the connection with the
\* segment's source (0 where there is none)
InboundMapping(packet) == TcpMappingAt(mappings, packet.dport)

InboundConnection(packet) ==
    IF InboundMapping(packet) = 0 THEN 0
    ELSE FindConnectionFrom(mappings[InboundMapping(packet)].conns, 1,
                            packet.src, packet.sport)

\* C37: when the ingress worker finishes a segment from outside without FIN
\* (a SYN, with or without ACK, or a segment without SYN such as a bare
\* ACK) that matches a connection in OUTBOUND_SYN, the connection is
\* CONNECTED.
C37_OutboundSynConnectedByPeer ==
    [][ ( /\ pcIn = "tcpInbound" /\ pcIn' = "idle"
          /\ natCopy # <<>>
          /\ ~pkt[1].ip.fin
          /\ InboundConnection(pkt[1].ip) # 0
          /\ mappings[InboundMapping(pkt[1].ip)]
                .conns[InboundConnection(pkt[1].ip)].connectionState
                = nat_conn_outbound_syn )
        => mappings'[InboundMapping(pkt[1].ip)]
              .conns[InboundConnection(pkt[1].ip)].connectionState
              = nat_conn_connected
      ]_vars

\* where in the table the connection of an outbound segment is
OutboundMapping(packet) ==
    natTrustedLookupInternal(mappings, packet.src, packet.sport, nat_mapping_tcp)

OutboundConnection(packet) ==
    IF OutboundMapping(packet) = 0 THEN 0
    ELSE FindConnectionFrom(mappings[OutboundMapping(packet)].conns, 1,
                            packet.dst, packet.dport)

\* C38: when the ingress worker finishes a SYN from inside whose peer has a
\* connection in INBOUND_SYN_PENDING, that connection is CONNECTED and no
\* longer holds the queued SYN; the only frame that leaves carries the SYN
\* from inside, with the router's egress address and the external port of
\* the mapping as its source, and that port is the one the queued SYN was
\* addressed to; no ICMP message leaves.
C38_SimultaneousOpenCompleted ==
    [][ ( /\ pcIn = "tcpOutbound" /\ pcIn' = "idle"
          /\ pkt[1].ip.syn
          /\ natCopy # <<>>
          /\ OutboundConnection(pkt[1].ip) # 0
          /\ mappings[OutboundMapping(pkt[1].ip)]
                .conns[OutboundConnection(pkt[1].ip)].connectionState
                = nat_conn_inbound_syn_pending )
        => LET packet == pkt[1].ip
               m == mappings[OutboundMapping(packet)]
               before == m.conns[OutboundConnection(packet)]
               after == mappings'[OutboundMapping(packet)]
                           .conns[OutboundConnection(packet)]
           IN  /\ ~aborted'
               /\ after.connectionState = nat_conn_connected
               /\ after.queuedInboundSyn.ptr # "live"
               /\ before.queuedInboundSyn.data[1].dport = m.aux_ext
               /\ IpDatagrams(emitted') =
                     << [packet EXCEPT !.src = EgressIp(packet.dst)[1],
                                       !.sport = m.aux_ext] >>
      ]_vars

\* the simultaneous open has completed: the connection to the peer that had
\* sent its SYN first is CONNECTED, its queued SYN is gone, and the SYN from
\* inside has just left through the mapping's port
C38_Witness ==
    /\ ~aborted /\ pcIn = "idle"
    /\ \E conn \in ConnectionsWith(OtherPort) :
          /\ conn.connectionState = nat_conn_connected
          /\ conn.queuedInboundSyn.ptr = "freed"
    /\ Len(IpDatagrams(emitted)) = 1
    /\ LET sent == IpDatagrams(emitted)[1]
       IN  /\ sent.proto = "tcp" /\ sent.syn
           /\ sent.dport = OtherPort
           /\ TcpMappingAt(mappings, sent.sport) # 0

\* C39: in every TCP mapping no two connections have the same peer address
\* and port.
C39_OneConnectionPerPeer ==
    \A i \in 1..Len(mappings) :
        \A j, k \in 1..Len(mappings[i].conns) :
            ( /\ mappings[i].conns[j].ip = mappings[i].conns[k].ip
              /\ mappings[i].conns[j].port = mappings[i].conns[k].port )
            => j = k

\* a mapping holds the connections of two peers, one opened from inside and
\* one waiting with the SYN its peer sent, and time has passed
C39_Witness ==
    /\ now > 0 /\ ~aborted
    /\ \E i \in 1..Len(mappings) :
          /\ Len(mappings[i].conns) = 2
          /\ mappings[i].conns[1].connectionState = nat_conn_inbound_syn_pending
          /\ mappings[i].conns[2].connectionState
                \in {nat_conn_outbound_syn, nat_conn_connected}

-----------------------------------------------------------------------------
(* The NAT with segments from an endpoint the internal host has not        *)
(* addressed: the host opens a flow to one port of its peer, segments      *)
(* arrive from that port and from another.                                 *)

PeerInputs ==
    { Received("eth1", TcpPacket(InternalHost, InternalPort, InternetHost,
                                 ServerPort, TRUE, FALSE, ArrivalTtl)) }
    \cup
    { Received("eth3", TcpPacket(InternetHost, port, sr_get_interface("eth3").ip,
                                 STARTING_PORT_NUMBER, fl[1], fl[2], ArrivalTtl))
        : port \in TcpPeerPorts, fl \in TcpFlags }

NextPeers ==
    \/ \E in \in PeerInputs : natHandleTcpPacket_Lookup(in) /\ UNCHANGED lastOut
    \/ natHandleTcpPacket_Outbound /\ UNCHANGED lastOut
    \/ natHandleTcpPacket_Inbound /\ UNCHANGED lastOut
    \/ sr_nat_timeout_Lock /\ UNCHANGED lastOut
    \/ sr_nat_timeout_Walk /\ UNCHANGED lastOut
    \/ Tick /\ UNCHANGED lastOut

SpecPeers == Init /\ [][NextPeers]_vars

\* C40: when the ingress worker finishes a segment from outside whose
\* destination port is that of a TCP mapping which has no connection for
\* the segment's source address and port, whatever the segment's flags,
\* nothing is translated and no frame leaves toward the internal host.
C40_UnknownPeerNotForwarded ==
    [][ ( /\ pcIn = "tcpInbound" /\ pcIn' = "idle"
          /\ natCopy # <<>>
          /\ InboundMapping(pkt[1].ip) # 0
          /\ InboundConnection(pkt[1].ip) = 0 )
        => /\ fwd' = <<>>
           /\ \A n \in 1..Len(emitted') :
                 emitted'[n].iface # internalInterfaceName
      ]_vars

====
